---- MODULE Spec2Model ----
(***************************************************************************)
(* Model of the peer-pressure Peer session: the negotiation coordinator    *)
(* (SignalingManager), the remote-candidate buffer (Peer.signal /          *)
(* _handleRemoteDescription), the readiness detector (StatsManager), the   *)
(* data path gate (DataChannelManager.write) and teardown (Peer._destroy). *)
(*                                                                         *)
(* JavaScript scheduling is modelled explicitly: `micro` is the microtask  *)
(* queue (queueMicrotask callbacks and promise continuations, FIFO);       *)
(* timers, engine events and engine promise settlements are tasks and run  *)
(* only when the microtask queue is empty.  Application calls are          *)
(* synchronous and may occur between any two steps.                        *)
(*                                                                         *)
(* Every handler of the source is an operator from a state record to a     *)
(* state record, so that a handler calling another handler is operator     *)
(* application; an action applies one handler to the current state.        *)
(***************************************************************************)
EXTENDS Integers, Sequences, FiniteSets, TLC

VARIABLES
  \* options fixed at construction
  initiator, trickle, nativeLow,
  \* Peer fields
  destroyed, destroying,
  _connected, _connecting, _pcReady, _channelReady,
  _iceComplete, _iceCompleteTimer,
  _isNegotiating, _firstNegotiation, _batchedNegotiation, _queuedNegotiation,
  _pendingCandidates, _chunk, _cb, _interval, _channel,
  \* scheduler: microtask queue, pending timers, listeners
  micro, offerTimers, statsTimers, iceWaiters,
  \* engine (RTCPeerConnection / RTCDataChannel) state
  signalingState, remoteDescription, pcChain, statsInFlight,
  bufferedAmount, channelOpen,
  \* what the last step emitted / whether it threw to its caller
  out, exc,
  \* input counters
  nCands, nWrites, nSignals, h_payload,
  \* observation (history) variables
  h_winReqs, h_negFromWin, h_owed, h_applied, h_appliedEarly,
  h_sentLog, h_cbCalls, h_cbErr, h_phase, h_pcReadySeen, h_chReadySeen,
  h_statsDone, h_connects, h_early,
  h_firstDestroy, h_ignored, h_closes, h_errors, h_input, h_flushed,
  h_begins,
  \* the session at the other end, as a record of the same shape; the sides
  \* that have not emitted negotiated since negotiate() was called, and the
  \* negotiate() calls made on wired sessions
  remote, h_pending, nNegotiations

vars == << initiator, trickle, nativeLow, destroyed, destroying,
           _connected, _connecting, _pcReady, _channelReady,
           _iceComplete, _iceCompleteTimer,
           _isNegotiating, _firstNegotiation, _batchedNegotiation,
           _queuedNegotiation, _pendingCandidates, _chunk, _cb, _interval,
           _channel, micro, offerTimers, statsTimers, iceWaiters,
           signalingState, remoteDescription, pcChain, statsInFlight,
           bufferedAmount, channelOpen, out, exc,
           nCands, nWrites, nSignals, h_payload,
           h_winReqs, h_negFromWin, h_owed, h_applied, h_appliedEarly,
           h_sentLog, h_cbCalls, h_cbErr, h_phase, h_pcReadySeen,
           h_chReadySeen, h_statsDone, h_connects, h_early,
           h_firstDestroy, h_ignored, h_closes, h_errors, h_input, h_flushed,
           h_begins, remote, h_pending, nNegotiations >>

----------------------------------------------------------------------------
\* Bounds of the model

\* needsNegotiation() calls the application makes in one synchronous window
MaxReqs == 2
\* remote candidates passed to signal()
MaxCands == 2
\* write() calls
MaxWrites == 2
\* engine operations in flight on the connection's operations chain
MaxChain == 1
\* delayed offer creations (setTimeout 0) pending at once
MaxTimers == 2
\* description signals waiting for the end of candidate gathering
MaxWaiters == 2
\* signal() calls with arbitrary arguments
MaxSignals == 2
\* recognized fields in one payload object
MaxFields == 2
\* negotiate() calls on wired sessions
MaxNegotiations == 3

\* Program constants
MAX_BUFFERED_AMOUNT == 65536

\* buffered-byte levels the transport may report: empty, exactly at the
\* watermark, just above it
BufferLevels == {0, MAX_BUFFERED_AMOUNT, MAX_BUFFERED_AMOUNT + 1}

WriteIds == 1..MaxWrites

Task(k, a, r) == [k |-> k, a |-> a, r |-> r]
Op(o, a) == [op |-> o, a |-> a]

----------------------------------------------------------------------------
\* The state as a record, so that handlers compose

State ==
  [ initiator |-> initiator, trickle |-> trickle, nativeLow |-> nativeLow,
    destroyed |-> destroyed, destroying |-> destroying,
    _connected |-> _connected, _connecting |-> _connecting,
    _pcReady |-> _pcReady, _channelReady |-> _channelReady,
    _iceComplete |-> _iceComplete, _iceCompleteTimer |-> _iceCompleteTimer,
    _isNegotiating |-> _isNegotiating, _firstNegotiation |-> _firstNegotiation,
    _batchedNegotiation |-> _batchedNegotiation,
    _queuedNegotiation |-> _queuedNegotiation,
    _pendingCandidates |-> _pendingCandidates, _chunk |-> _chunk, _cb |-> _cb,
    _interval |-> _interval, _channel |-> _channel,
    micro |-> micro, offerTimers |-> offerTimers, statsTimers |-> statsTimers,
    iceWaiters |-> iceWaiters,
    signalingState |-> signalingState, remoteDescription |-> remoteDescription,
    pcChain |-> pcChain, statsInFlight |-> statsInFlight,
    bufferedAmount |-> bufferedAmount, channelOpen |-> channelOpen,
    out |-> out, exc |-> exc, nCands |-> nCands, nWrites |-> nWrites,
    nSignals |-> nSignals, h_payload |-> h_payload,
    h_winReqs |-> h_winReqs, h_negFromWin |-> h_negFromWin, h_owed |-> h_owed,
    h_applied |-> h_applied, h_appliedEarly |-> h_appliedEarly,
    h_sentLog |-> h_sentLog, h_cbCalls |-> h_cbCalls, h_cbErr |-> h_cbErr,
    h_phase |-> h_phase, h_pcReadySeen |-> h_pcReadySeen,
    h_chReadySeen |-> h_chReadySeen, h_statsDone |-> h_statsDone,
    h_connects |-> h_connects, h_early |-> h_early,
    h_firstDestroy |-> h_firstDestroy, h_ignored |-> h_ignored,
    h_closes |-> h_closes,
    h_errors |-> h_errors, h_input |-> h_input, h_flushed |-> h_flushed,
    h_begins |-> h_begins ]

ApplyLocal(s) ==
  /\ initiator' = s.initiator /\ trickle' = s.trickle
  /\ nativeLow' = s.nativeLow
  /\ destroyed' = s.destroyed /\ destroying' = s.destroying
  /\ _connected' = s._connected /\ _connecting' = s._connecting
  /\ _pcReady' = s._pcReady /\ _channelReady' = s._channelReady
  /\ _iceComplete' = s._iceComplete
  /\ _iceCompleteTimer' = s._iceCompleteTimer
  /\ _isNegotiating' = s._isNegotiating
  /\ _firstNegotiation' = s._firstNegotiation
  /\ _batchedNegotiation' = s._batchedNegotiation
  /\ _queuedNegotiation' = s._queuedNegotiation
  /\ _pendingCandidates' = s._pendingCandidates
  /\ _chunk' = s._chunk /\ _cb' = s._cb
  /\ _interval' = s._interval /\ _channel' = s._channel
  /\ micro' = s.micro /\ offerTimers' = s.offerTimers
  /\ statsTimers' = s.statsTimers /\ iceWaiters' = s.iceWaiters
  /\ signalingState' = s.signalingState
  /\ remoteDescription' = s.remoteDescription
  /\ pcChain' = s.pcChain /\ statsInFlight' = s.statsInFlight
  /\ bufferedAmount' = s.bufferedAmount
  /\ channelOpen' = s.channelOpen
  /\ out' = s.out /\ exc' = s.exc
  /\ nCands' = s.nCands /\ nWrites' = s.nWrites /\ nSignals' = s.nSignals
  /\ h_payload' = s.h_payload
  /\ h_winReqs' = s.h_winReqs /\ h_negFromWin' = s.h_negFromWin
  /\ h_owed' = s.h_owed
  /\ h_applied' = s.h_applied /\ h_appliedEarly' = s.h_appliedEarly
  /\ h_sentLog' = s.h_sentLog /\ h_cbCalls' = s.h_cbCalls
  /\ h_cbErr' = s.h_cbErr /\ h_phase' = s.h_phase
  /\ h_pcReadySeen' = s.h_pcReadySeen /\ h_chReadySeen' = s.h_chReadySeen
  /\ h_statsDone' = s.h_statsDone /\ h_connects' = s.h_connects
  /\ h_early' = s.h_early
  /\ h_firstDestroy' = s.h_firstDestroy /\ h_ignored' = s.h_ignored
  /\ h_closes' = s.h_closes /\ h_errors' = s.h_errors
  /\ h_input' = s.h_input /\ h_flushed' = s.h_flushed
  /\ h_begins' = s.h_begins

\* a step of this session alone
Apply(s) == ApplyLocal(s) /\ UNCHANGED << remote, h_pending, nNegotiations >>

\* The state an application call starts from: same synchronous window;
\* h_input notes that the application has called the session
InCall == [State EXCEPT !.out = <<>>, !.exc = FALSE, !.h_input = TRUE]

\* The state a task or a microtask starts from: a new synchronous window
InTask == [State EXCEPT !.out = <<>>, !.exc = FALSE, !.h_winReqs = 0]

Min(a, b) == IF a < b THEN a ELSE b

----------------------------------------------------------------------------
\* Primitives

queueMicrotask(s, t) == [s EXCEPT !.micro = Append(@, t)]

emit(s, e) == [s EXCEPT !.out = Append(@, e)]

throw(s) == [s EXCEPT !.exc = TRUE]

\* the argument of the first _destroy call is kept in h_firstDestroy
noteDestroy(s, err) ==
  [s EXCEPT !.h_firstDestroy = IF @ = <<>> THEN <<err>> ELSE @]

_destroy_NoGuard(s, err) ==
  queueMicrotask([noteDestroy(s, err) EXCEPT !.destroying = TRUE],
                 Task("destroy", err, ""))

\* Peer._destroy up to the microtask it queues; err is "" when the call
\* carries no error
_destroy(s, err) ==
  IF s.destroyed \/ s.destroying THEN s
  ELSE queueMicrotask([noteDestroy(s, err) EXCEPT !.destroying = TRUE],
                      Task("destroy", err, ""))

----------------------------------------------------------------------------
\* SignalingManager

\* a negotiate() call that passes the destroy guards is noted in out as
\* "#negotiate", and as "#served" when it serves a flushed queue
noteNegotiate(s) ==
  LET s1 == emit(s, "#negotiate")
  IN [(IF s.h_owed THEN emit(s1, "#served") ELSE s1) EXCEPT !.h_owed = FALSE]

negotiate_NoQueue(s) ==
  IF s.destroying THEN s
  ELSE IF s.destroyed THEN throw(s)
  ELSE IF s.initiator
    THEN [noteNegotiate(s) EXCEPT !.offerTimers = @ + 1,
                                  !._isNegotiating = TRUE]
    ELSE [emit(noteNegotiate(s), "signal:renegotiate") EXCEPT
            !._isNegotiating = TRUE]

\* negotiate() setting the queue flag whether or not a negotiation is in
\* flight
negotiate_AlwaysQueues(s) ==
  IF s.destroying THEN s
  ELSE IF s.destroyed THEN throw(s)
  ELSE IF s._isNegotiating
    THEN [noteNegotiate(s) EXCEPT !._queuedNegotiation = TRUE]
  ELSE IF s.initiator
    THEN [noteNegotiate(s) EXCEPT !.offerTimers = @ + 1,
                                  !._queuedNegotiation = TRUE,
                                  !._isNegotiating = TRUE]
    ELSE [emit(noteNegotiate(s), "signal:renegotiate") EXCEPT
            !._queuedNegotiation = TRUE,
            !._isNegotiating = TRUE]

negotiate(s) ==
  IF s.destroying THEN s
  ELSE IF s.destroyed THEN throw(s)
  ELSE IF s._isNegotiating
    THEN [noteNegotiate(s) EXCEPT !._queuedNegotiation = TRUE]
  ELSE IF s.initiator
    THEN [noteNegotiate(s) EXCEPT !.offerTimers = @ + 1,
                                  !._isNegotiating = TRUE]
    ELSE [emit(noteNegotiate(s), "signal:renegotiate") EXCEPT
            !._isNegotiating = TRUE]

needsNegotiation_NoFlag(s) ==
  LET s1 == [s EXCEPT !.h_winReqs = Min(@ + 1, MaxReqs + 1),
                      !.h_negFromWin = IF s.h_winReqs = 0 THEN 0 ELSE @]
  IN queueMicrotask([s1 EXCEPT !._batchedNegotiation = TRUE],
                    Task("batch", "", ""))

\* the synchronous part of needsNegotiation
needsNegotiation(s) ==
  LET s1 == [s EXCEPT !.h_winReqs = Min(@ + 1, MaxReqs + 1),
                      !.h_negFromWin = IF s.h_winReqs = 0 THEN 0 ELSE @]
  IN IF s1._batchedNegotiation THEN s1
     ELSE queueMicrotask([s1 EXCEPT !._batchedNegotiation = TRUE],
                         Task("batch", "", ""))

batchedNegotiation_NoSuppress(s, reqs) ==
  LET s1 == [s EXCEPT !._batchedNegotiation = FALSE]
      s2 == negotiate(
              [(IF reqs >= 2 THEN emit(s1, "#collapsed") ELSE s1)
                 EXCEPT !.h_negFromWin = Min(@ + 1, 3)])
  IN IF s2.exc THEN s2
     ELSE [s2 EXCEPT !._firstNegotiation = FALSE]

\* the microtask needsNegotiation queues; reqs is the number of requests
\* of the window that just ended, noted in out as "#collapsed" when several
\* requests are served by this one microtask
batchedNegotiation(s, reqs) ==
  LET s1 == [s EXCEPT !._batchedNegotiation = FALSE]
      shouldNegotiate == s1.initiator \/ ~s1._firstNegotiation
  IN IF ~shouldNegotiate
       THEN [s1 EXCEPT !._firstNegotiation = FALSE]
       ELSE LET s2 == negotiate(
                        [(IF reqs >= 2 THEN emit(s1, "#collapsed") ELSE s1)
                           EXCEPT !.h_negFromWin = Min(@ + 1, 3)])
            IN IF s2.exc THEN s2
               ELSE [s2 EXCEPT !._firstNegotiation = FALSE]

\* (sendSignal's afterSignal, the responder's sweep for transceivers that
\* have a sender track and no mid, finds none in a session without media)

\* createOffer up to its first await
\* createOffer without its first destroyed guard
createOffer_NoGuard(s) ==
  [s EXCEPT !.pcChain = Append(@, Op("createOffer", ""))]

createOffer(s) ==
  IF s.destroyed THEN s
  ELSE [s EXCEPT !.pcChain = Append(@, Op("createOffer", ""))]

\* createAnswer up to its first await
createAnswer(s) ==
  IF s.destroyed THEN s
  ELSE [s EXCEPT !.pcChain = Append(@, Op("createAnswer", ""))]

\* createOffer / createAnswer after the await: type is "offer" or "answer"
descriptionCreated(s, type, res) ==
  IF res # "ok" THEN _destroy(s, "err")
  ELSE IF s.destroyed THEN s
  ELSE [s EXCEPT !.pcChain = Append(@, Op("setLocal", type))]

sendSignal(s, type) ==
  IF s.destroyed THEN s
  ELSE emit(s, IF type = "offer" THEN "signal:offer" ELSE "signal:answer")

\* setLocalDescriptionAndSignal after the await
localDescriptionSet_NoWait(s, type, res) ==
  IF res # "ok" THEN _destroy(s, "err")
  ELSE IF s.destroyed THEN s
  ELSE sendSignal(s, type)

localDescriptionSet(s, type, res) ==
  IF res # "ok" THEN _destroy(s, "err")
  ELSE IF s.destroyed THEN s
  ELSE IF s.trickle \/ s._iceComplete THEN sendSignal(s, type)
  ELSE [s EXCEPT !.iceWaiters = Append(@, type)]

----------------------------------------------------------------------------
\* ICEManager

\* the addresses a remote candidate may carry; "" is an absent or empty
\* address
Addresses == {"", ".local", "h.local", "local", ".localx", "1.2"}

\* the characters of an address
chars(str) ==
  CASE str = "" -> << >>
    [] str = ".local" -> << ".", "l", "o", "c", "a", "l" >>
    [] str = "h.local" -> << "h", ".", "l", "o", "c", "a", "l" >>
    [] str = "local" -> << "l", "o", "c", "a", "l" >>
    [] str = ".localx" -> << ".", "l", "o", "c", "a", "l", "x" >>
    [] str = "1.2" -> << "1", ".", "2" >>

\* String.prototype.endsWith
endsWith(str, suffix) ==
  /\ Len(chars(str)) >= Len(chars(suffix))
  /\ SubSeq(chars(str), Len(chars(str)) - Len(chars(suffix)) + 1,
            Len(chars(str))) = chars(suffix)

\* hands the candidate to the engine; the outcome arrives later. The
\* candidate's address is read only when the engine rejects the candidate
\* and is filled in then
addIceCandidate(s, c) ==
  [s EXCEPT !.pcChain = Append(@, Op("addIceCandidate", "")),
            !.h_applied = Append(@, c),
            !.h_appliedEarly = @ \/ (s.remoteDescription = "none")]

\* addIceCandidate after the await, treating every failure as fatal
iceCandidateAdded_AllFatal(s, address, res) ==
  IF res = "ok" THEN s
  ELSE _destroy(s, "err")

\* addIceCandidate after the await; console.warn is noted in out as "#warn"
iceCandidateAdded(s, address, res) ==
  IF res = "ok" THEN s
  ELSE IF address = "" \/ endsWith(address, ".local") THEN emit(s, "#warn")
  ELSE _destroy(s, "err")

RECURSIVE addAll(_, _)
addAll(s, cs) ==
  IF cs = <<>> THEN s
  ELSE addAll(addIceCandidate(s, Head(cs)), Tail(cs))

----------------------------------------------------------------------------
\* '_iceComplete' listeners registered with once(): run in order, then removed
RECURSIVE runWaiters(_, _)
runWaiters(s, ws) ==
  IF ws = <<>> THEN s
  ELSE runWaiters(sendSignal(s, Head(ws)), Tail(ws))

\* the emission of '_iceComplete', noted in out as "#iceComplete"; the
\* release of description signals that were waiting for it is noted in out
\* as "#deferred"
emitIceComplete(s) ==
  LET s0 == emit(s, "#iceComplete")
      s1 == IF s0.iceWaiters # <<>> THEN emit(s0, "#deferred") ELSE s0
  IN runWaiters([s1 EXCEPT !.iceWaiters = <<>>], s.iceWaiters)

\* startIceCompleteTimeout starting a timer whether or not one exists
startIceCompleteTimeout_NoCheck(s) ==
  IF s.destroyed THEN s
  ELSE [s EXCEPT !._iceCompleteTimer = "pending"]

startIceCompleteTimeout(s) ==
  IF s.destroyed THEN s
  ELSE IF s._iceCompleteTimer # "none" THEN s
  ELSE [s EXCEPT !._iceCompleteTimer = "pending"]

\* onIceCandidate notifying the waiters at every end-of-candidates marker
onIceCandidate_NoCompleteCheck(s, cand) ==
  IF s.destroyed THEN s
  ELSE
    LET s1 == IF cand /\ s.trickle THEN emit(s, "signal:candidate") ELSE s
        s2 == IF ~cand
                THEN emitIceComplete([s1 EXCEPT !._iceComplete = TRUE])
                ELSE s1
    IN IF cand THEN startIceCompleteTimeout(s2) ELSE s2

\* cand is TRUE for a candidate, FALSE for the end-of-candidates marker
onIceCandidate(s, cand) ==
  IF s.destroyed THEN s
  ELSE
    LET s1 == IF cand /\ s.trickle THEN emit(s, "signal:candidate") ELSE s
        s2 == IF ~cand /\ ~s1._iceComplete
                THEN emitIceComplete([s1 EXCEPT !._iceComplete = TRUE])
                ELSE s1
    IN IF cand THEN startIceCompleteTimeout(s2) ELSE s2

iceCompleteTimeout_NoCheck(s) ==
  emitIceComplete(emit([s EXCEPT !._iceCompleteTimer = "fired",
                                 !._iceComplete = TRUE], "iceTimeout"))

\* the callback of the completion timer
iceCompleteTimeout(s) ==
  LET s0 == [s EXCEPT !._iceCompleteTimer = "fired"]
  IN IF s0._iceComplete THEN s0
     ELSE emitIceComplete(emit([s0 EXCEPT !._iceComplete = TRUE],
                               "iceTimeout"))

----------------------------------------------------------------------------
\* Data path

\* a completion callback is invoked: count it, and note a callback of a
\* write made on a connected session that runs while the transport still
\* reports more than the watermark
invokeCb(s, id, err) ==
  IF id = 0 THEN s
  ELSE [s EXCEPT !.h_cbCalls[id] = Min(@ + 1, 2),
                 !.h_cbErr[id] = @ \/ err,
                 !.h_early = @ \/ (~err /\ s.h_phase[id] = "post"
                                   /\ s.bufferedAmount > MAX_BUFFERED_AMOUNT)]

\* Peer.send returning silently on a destroyed session
send_SilentWhenDestroyed(s, id, fail, lvl) ==
  IF s.destroying \/ s.destroyed THEN s
  ELSE IF ~s._channel \/ ~s.channelOpen \/ fail THEN throw(s)
  ELSE [s EXCEPT !.h_sentLog = Append(@, id), !.bufferedAmount = lvl]

\* Peer.send: fail says the transport's send throws, lvl is the buffered
\* amount the transport reports afterwards
send(s, id, fail, lvl) ==
  IF s.destroying THEN s
  ELSE IF s.destroyed THEN throw(s)
  ELSE IF ~s._channel \/ ~s.channelOpen \/ fail THEN throw(s)
  ELSE [s EXCEPT !.h_sentLog = Append(@, id), !.bufferedAmount = lvl]

\* the release of the callback of a write made on a connected session is
\* noted in out as "#released"
noteRelease(s) ==
  IF s._cb # 0 /\ s.h_phase[s._cb] = "post" THEN emit(s, "#released") ELSE s

onChannelBufferedAmountLow_NoClear(s) ==
  IF s.destroyed THEN s
  ELSE IF s._cb = 0 THEN s
  ELSE invokeCb(noteRelease(s), s._cb, FALSE)

onChannelBufferedAmountLow(s) ==
  IF s.destroyed THEN s
  ELSE IF s._cb = 0 THEN s
  ELSE invokeCb([noteRelease(s) EXCEPT !._cb = 0], s._cb, FALSE)

_onInterval(s) ==
  IF s._cb = 0 THEN s
  ELSE IF ~s._channel THEN s
  ELSE IF s.bufferedAmount > 64 * 1024 THEN s
  ELSE onChannelBufferedAmountLow(s)

write_NoBackpressure(s, id, fail, lvl) ==
  IF s.destroyed THEN invokeCb(s, id, TRUE)
  ELSE IF ~s._connected THEN [s EXCEPT !._chunk = id, !._cb = id]
  ELSE
    LET s1 == send(s, id, fail, lvl)
    IN IF s1.exc THEN _destroy([s1 EXCEPT !.exc = FALSE], "err")
       ELSE IF ~s1._channel THEN invokeCb(s1, id, TRUE)
       ELSE invokeCb(s1, id, FALSE)

\* write reporting a failed send to the callback as well
write_CbOnFailure(s, id, fail, lvl) ==
  IF s.destroyed THEN invokeCb(s, id, TRUE)
  ELSE IF ~s._connected THEN [s EXCEPT !._chunk = id, !._cb = id]
  ELSE
    LET s1 == send(s, id, fail, lvl)
    IN IF s1.exc
         THEN invokeCb(_destroy([s1 EXCEPT !.exc = FALSE], "err"), id, TRUE)
       ELSE IF ~s1._channel THEN invokeCb(s1, id, TRUE)
       ELSE IF s1.bufferedAmount > MAX_BUFFERED_AMOUNT
         THEN [s1 EXCEPT !._cb = id]
         ELSE invokeCb(s1, id, FALSE)

write(s, id, fail, lvl) ==
  IF s.destroyed THEN invokeCb(s, id, TRUE)
  ELSE IF ~s._connected THEN [s EXCEPT !._chunk = id, !._cb = id]
  ELSE
    LET s1 == send(s, id, fail, lvl)
    IN IF s1.exc THEN _destroy([s1 EXCEPT !.exc = FALSE], "err")
       ELSE IF ~s1._channel THEN invokeCb(s1, id, TRUE)
       ELSE IF s1.bufferedAmount > MAX_BUFFERED_AMOUNT
         THEN [s1 EXCEPT !._cb = id]
         ELSE invokeCb(s1, id, FALSE)

----------------------------------------------------------------------------
\* StatsManager

handlePendingChunk(s, fail, lvl) ==
  IF s._chunk = 0 THEN s
  ELSE
    LET s1 == send(s, s._chunk, fail, lvl)
    IN IF s1.exc THEN _destroy([s1 EXCEPT !.exc = FALSE], "err")
       ELSE invokeCb([s1 EXCEPT !._chunk = 0, !._cb = 0], s1._cb, FALSE)

\* setupBackpressureInterval starting the poll whatever the channel supports
setupBackpressureInterval_Always(s) ==
  IF ~s._channel THEN s
  ELSE [s EXCEPT !._interval = TRUE]

setupBackpressureInterval(s) ==
  IF ~s._channel THEN s
  ELSE IF s.nativeLow THEN s
  ELSE [s EXCEPT !._interval = TRUE]

\* findCandidatePair up to the statistics query
findCandidatePair(s) ==
  IF s.destroyed THEN s
  ELSE [s EXCEPT !.statsInFlight = @ + 1]

\* a statistics result, as far as findCandidatePair looks at it: the query
\* failed; a selected pair was found; the numbers of candidate-pair and
\* local-candidate records
StatsResults == {"err", "empty", "locals", "safari", "selected"}

StatsRecord(c) ==
  [ err    |-> (c = "err"),
    found  |-> (c = "selected"),
    pairs  |-> IF c \in {"locals", "safari", "selected"} THEN 1 ELSE 0,
    locals |-> IF c \in {"locals", "selected"} THEN 1 ELSE 0 ]

shouldWait(c) ==
  LET r == StatsRecord(c)
  IN ~r.found /\ (r.pairs = 0 \/ r.locals # 0)

statsCallback_NoReplay(s, r, fail, lvl) ==
  IF s.destroyed THEN s
  ELSE IF shouldWait(r)
    THEN [(IF r = "err" THEN emit(s, "#statsError") ELSE s)
            EXCEPT !.statsTimers = @ + 1]
  ELSE
    LET s1 == [s EXCEPT !._connecting = FALSE, !._connected = TRUE]
        s2 == setupBackpressureInterval(s1)
    IN [emit(s2, "connect") EXCEPT !.h_connects = Min(@ + 1, 2)]

\* a failed query is noted in out as "#statsError"
noteStatsError(s, r) == IF r = "err" THEN emit(s, "#statsError") ELSE s

\* the callback of getStats treating a failed query as fatal
statsCallback_ErrFatal(s, r, fail, lvl) ==
  IF s.destroyed THEN s
  ELSE IF r = "err" THEN _destroy(noteStatsError(s, r), "err")
  ELSE IF shouldWait(r) THEN [s EXCEPT !.statsTimers = @ + 1]
  ELSE
    LET s1 == [s EXCEPT !._connecting = FALSE, !._connected = TRUE]
        s2 == setupBackpressureInterval(handlePendingChunk(s1, fail, lvl))
    IN [emit(s2, "connect") EXCEPT !.h_connects = Min(@ + 1, 2)]

\* the callback findCandidatePair passes to getStats
statsCallback(s, r, fail, lvl) ==
  IF s.destroyed THEN s
  ELSE IF shouldWait(r)
    THEN [noteStatsError(s, r) EXCEPT !.statsTimers = @ + 1]
  ELSE
    LET s1 == [s EXCEPT !._connecting = FALSE, !._connected = TRUE]
        s2 == setupBackpressureInterval(handlePendingChunk(s1, fail, lvl))
    IN [emit(s2, "connect") EXCEPT !.h_connects = Min(@ + 1, 2)]

\* maybeReady past its guards: the confirmation of readiness begins; h_begins
\* counts how often it did
beginConfirmation(s) ==
  findCandidatePair([s EXCEPT !._connecting = TRUE,
                              !.h_begins = Min(@ + 1, 2)])

maybeReady_NoChannelCheck(s) ==
  IF s._connected THEN s
  ELSE IF s._connecting THEN s
  ELSE IF ~s._pcReady THEN s
  ELSE beginConfirmation(s)

maybeReady_NoConnectingCheck(s) ==
  IF s._connected THEN s
  ELSE IF ~s._pcReady THEN s
  ELSE IF ~s._channelReady THEN s
  ELSE beginConfirmation(s)

maybeReady(s) ==
  IF s._connected THEN s
  ELSE IF s._connecting THEN s
  ELSE IF ~s._pcReady THEN s
  ELSE IF ~s._channelReady THEN s
  ELSE beginConfirmation(s)

onChannelOpen(s) ==
  IF s._connected THEN s
  ELSE IF s.destroyed THEN s
  ELSE maybeReady([s EXCEPT !._channelReady = TRUE, !.h_chReadySeen = TRUE])

\* onIceStateChange taking no notice of the closed state
onIceStateChange_ClosedIgnored(s, ics) ==
  IF s.destroyed THEN s
  ELSE
    LET s1 == emit(s, "iceStateChange")
    IN IF ics \in {"connected", "completed"}
         THEN maybeReady([s1 EXCEPT !._pcReady = TRUE, !.h_pcReadySeen = TRUE])
       ELSE IF ics = "failed" THEN _destroy(s1, "err")
       ELSE s1

onIceStateChange(s, ics) ==
  IF s.destroyed THEN s
  ELSE
    LET s1 == emit(s, "iceStateChange")
    IN IF ics \in {"connected", "completed"}
         THEN maybeReady([s1 EXCEPT !._pcReady = TRUE, !.h_pcReadySeen = TRUE])
       ELSE IF ics = "failed" THEN _destroy(s1, "err")
       ELSE IF ics = "closed" THEN _destroy(s1, "err")
       ELSE s1

----------------------------------------------------------------------------
\* Peer

_onSignalingStateChange_NoFlush(s) ==
  IF s.destroyed THEN s
  ELSE IF s.signalingState # "stable" THEN emit(s, "signalingStateChange")
  ELSE
    LET s1 == [s EXCEPT !._isNegotiating = FALSE]
        s2 == IF s1._queuedNegotiation
                THEN [s1 EXCEPT !._queuedNegotiation = FALSE, !.h_owed = TRUE]
                ELSE emit(s1, "negotiated")
    IN emit(s2, "signalingStateChange")

\* _onSignalingStateChange emitting negotiated also when it flushes the queue
_onSignalingStateChange_AlwaysNegotiated(s) ==
  IF s.destroyed THEN s
  ELSE IF s.signalingState # "stable" THEN emit(s, "signalingStateChange")
  ELSE
    LET s1 == [s EXCEPT !._isNegotiating = FALSE]
        s2 == IF s1._queuedNegotiation
                THEN needsNegotiation([s1 EXCEPT !._queuedNegotiation = FALSE,
                                                 !.h_owed = TRUE])
                ELSE s1
    IN emit(emit(s2, "negotiated"), "signalingStateChange")

_onSignalingStateChange(s) ==
  IF s.destroyed THEN s
  ELSE IF s.signalingState # "stable" THEN emit(s, "signalingStateChange")
  ELSE
    LET s1 == [s EXCEPT !._isNegotiating = FALSE]
        s2 == IF s1._queuedNegotiation
                THEN needsNegotiation([s1 EXCEPT !._queuedNegotiation = FALSE,
                                                 !.h_owed = TRUE])
                ELSE emit(s1, "negotiated")
    IN emit(s2, "signalingStateChange")

\* MediaManager.addTransceiver, as signal() uses it
addTransceiver(s) ==
  IF s.destroying THEN s
  ELSE IF s.destroyed THEN throw(s)
  ELSE IF s.initiator THEN needsNegotiation(s)
  ELSE emit(s, "signal:transceiverRequest")

\* _handleRemoteDescription up to its await; type is "offer" or "answer"
_handleRemoteDescription(s, type) ==
  [s EXCEPT !.pcChain = Append(@, Op("setRemote", type))]

\* the number of candidates handed over by a flush of a non-empty buffer is
\* appended to h_flushed; a flush of two or more is noted in out as "#flush"
noteFlush(s) ==
  LET n == Len(s._pendingCandidates)
      s0 == IF n >= 1 THEN [s EXCEPT !.h_flushed = Append(@, n)] ELSE s
  IN IF n >= 2 THEN emit(s0, "#flush") ELSE s0

\* _handleRemoteDescription after the await, leaving the buffer as it is
remoteDescriptionSet_NoClear(s, res) ==
  IF res # "ok" THEN _destroy(s, "err")
  ELSE IF s.destroyed THEN s
  ELSE
    LET s1 == addAll(noteFlush(s), s._pendingCandidates)
    IN IF s1.remoteDescription = "offer" THEN createAnswer(s1) ELSE s1

\* _handleRemoteDescription after the await
remoteDescriptionSet(s, res) ==
  IF res # "ok" THEN _destroy(s, "err")
  ELSE IF s.destroyed THEN s
  ELSE
    LET s1 == [addAll(noteFlush(s), s._pendingCandidates) EXCEPT
                 !._pendingCandidates = <<>>]
    IN IF s1.remoteDescription = "offer" THEN createAnswer(s1) ELSE s1

\* the fields of a signal() payload, as far as signal() looks at them; sdp
\* is "none" when absent
SignalData ==
  [ renegotiate : BOOLEAN, transceiverRequest : BOOLEAN,
    candidate : BOOLEAN, sdp : {"none", "offer", "answer"} ]

signal_NoBuffer(s, d, c) ==
  IF s.destroying THEN s
  ELSE IF s.destroyed THEN throw(s)
  ELSE
    LET s1 == IF d.renegotiate /\ s.initiator THEN needsNegotiation(s) ELSE s
        s2 == IF d.transceiverRequest /\ s1.initiator
                THEN addTransceiver(s1) ELSE s1
        s3 == IF d.candidate THEN addIceCandidate(s2, c) ELSE s2
        s4 == IF d.sdp # "none" THEN _handleRemoteDescription(s3, d.sdp)
              ELSE s3
        hasValidSignalData == \/ d.sdp # "none" \/ d.candidate
                              \/ d.renegotiate \/ d.transceiverRequest
    IN IF ~hasValidSignalData THEN _destroy(s4, "err") ELSE s4

\* signal() handling only the first recognized field it finds
signal_Exclusive(s, d, c) ==
  IF s.destroying THEN s
  ELSE IF s.destroyed THEN throw(s)
  ELSE IF d.renegotiate
    THEN IF s.initiator THEN needsNegotiation(s) ELSE s
  ELSE IF d.transceiverRequest
    THEN IF s.initiator THEN addTransceiver(s) ELSE s
  ELSE IF d.candidate
    THEN IF s.remoteDescription # "none"
           THEN addIceCandidate(s, c)
           ELSE [s EXCEPT !._pendingCandidates = Append(@, c)]
  ELSE IF d.sdp # "none" THEN _handleRemoteDescription(s, d.sdp)
  ELSE _destroy(s, "err")

\* c is the identity of the candidate the payload carries, if it carries one
signal(s, d, c) ==
  IF s.destroying THEN s
  ELSE IF s.destroyed THEN throw(s)
  ELSE
    LET s1 == IF d.renegotiate /\ s.initiator THEN needsNegotiation(s) ELSE s
        s2 == IF d.transceiverRequest /\ s1.initiator
                THEN addTransceiver(s1) ELSE s1
        s3 == IF d.candidate
                THEN IF s2.remoteDescription # "none"
                       THEN addIceCandidate(s2, c)
                       ELSE [s2 EXCEPT !._pendingCandidates = Append(@, c)]
                ELSE s2
        s4 == IF d.sdp # "none" THEN _handleRemoteDescription(s3, d.sdp)
              ELSE s3
        hasValidSignalData == \/ d.sdp # "none" \/ d.candidate
                              \/ d.renegotiate \/ d.transceiverRequest
    IN IF ~hasValidSignalData THEN _destroy(s4, "err") ELSE s4

\* what a recognized field of a payload may hold
Presence == {"absent", "falsy", "truthy"}

\* the arguments of signal(): an object, the JSON text of an object
\* ("json"), a string that is not JSON ("garbage", which has no fields), or
\* null or its JSON text ("null"); sdp holds the description's type where
\* it is a non-empty string
Objects ==
  [ form : {"object", "json"}, renegotiate : Presence,
    transceiverRequest : Presence, candidate : Presence,
    sdp : {"absent", "falsy", "offer", "answer"} ]

\* the recognized fields p has
FieldsOf(p) ==
  {f \in {"renegotiate", "transceiverRequest", "candidate", "sdp"} :
     p[f] # "absent"}

Payloads ==
  {p \in Objects : Cardinality(FieldsOf(p)) <=
                     (IF p.form = "object" THEN MaxFields ELSE 1)}
  \cup [ form : {"garbage", "null"}, renegotiate : {"absent"},
         transceiverRequest : {"absent"}, candidate : {"absent"},
         sdp : {"absent"} ]

\* what kind of argument p is: null, a string that is not JSON, or else an
\* object or its JSON text with no recognized field ("empty"), with
\* recognized fields that all hold falsy values ("falsy"), or with one that
\* holds a truthy value ("truthy")
payloadKind(p) ==
  IF p.form \in {"null", "garbage"} THEN p.form
  ELSE IF FieldsOf(p) = {} THEN "empty"
  ELSE IF \A f \in FieldsOf(p) : p[f] = "falsy" THEN "falsy"
  ELSE "truthy"

\* parsedData: JSON.parse of a string, {} where it throws, the object itself
\* otherwise
parsedData(p) ==
  IF p.form = "garbage"
    THEN [p EXCEPT !.renegotiate = "absent", !.transceiverRequest = "absent",
                   !.candidate = "absent", !.sdp = "absent"]
  ELSE p

\* the truth values signal() tests
toSignalData(p) ==
  [ renegotiate |-> p.renegotiate = "truthy",
    transceiverRequest |-> p.transceiverRequest = "truthy",
    candidate |-> p.candidate = "truthy",
    sdp |-> IF p.sdp \in {"offer", "answer"} THEN p.sdp ELSE "none" ]

\* signal() without its final check of the payload
signalPayload_NoCheck(s, p, c) ==
  IF s.destroying THEN s
  ELSE IF s.destroyed THEN throw(s)
  ELSE IF p.form = "null" THEN throw(s)
  ELSE LET d == toSignalData(parsedData(p))
       IN IF d.sdp = "none" /\ ~d.candidate /\ ~d.renegotiate
             /\ ~d.transceiverRequest
            THEN s ELSE signal(s, d, c)

\* signal() from its argument on: reading a field of null throws a
\* TypeError to the caller
signalPayload(s, p, c) ==
  IF s.destroying THEN s
  ELSE IF s.destroyed THEN throw(s)
  ELSE IF p.form = "null" THEN throw(s)
  ELSE signal(s, toSignalData(parsedData(p)), c)

\* the microtask _destroy queues, emitting close before error
destroyTask_CloseFirst(s, err) ==
  LET s1 == [s EXCEPT !.destroyed = TRUE, !.destroying = FALSE,
                      !._connected = FALSE, !._pcReady = FALSE,
                      !._channelReady = FALSE,
                      !._chunk = 0, !._cb = 0,
                      !._iceCompleteTimer = "none",
                      !._interval = FALSE,
                      !.channelOpen = FALSE,
                      !.signalingState = "closed",
                      !._channel = FALSE]
      s2 == [emit(s1, "close") EXCEPT !.h_closes = Min(@ + 1, 2)]
  IN IF err # ""
       THEN [emit(s2, "error") EXCEPT !.h_errors = Min(@ + 1, 2)]
       ELSE s2

\* the microtask _destroy queues, failing the callback it finds in the slot
destroyTask_FailPending(s, err) ==
  LET s0 == invokeCb(s, s._cb, TRUE)
      s1 == [s0 EXCEPT !.destroyed = TRUE, !.destroying = FALSE,
                       !._connected = FALSE, !._pcReady = FALSE,
                       !._channelReady = FALSE,
                       !._chunk = 0, !._cb = 0,
                       !._iceCompleteTimer = "none",
                       !._interval = FALSE,
                       !.channelOpen = FALSE,
                       !.signalingState = "closed",
                       !._channel = FALSE]
      s2 == IF err # ""
              THEN [emit(s1, "error") EXCEPT !.h_errors = Min(@ + 1, 2)]
              ELSE s1
  IN [emit(s2, "close") EXCEPT !.h_closes = Min(@ + 1, 2)]

\* the microtask _destroy queues
destroyTask(s, err) ==
  LET s1 == [s EXCEPT !.destroyed = TRUE, !.destroying = FALSE,
                      !._connected = FALSE, !._pcReady = FALSE,
                      !._channelReady = FALSE,
                      !._chunk = 0, !._cb = 0,
                      !._iceCompleteTimer = "none",
                      !._interval = FALSE,
                      !.channelOpen = FALSE,
                      !.signalingState = "closed",
                      !._channel = FALSE]
      s2 == IF err # ""
              THEN [emit(s1, "error") EXCEPT !.h_errors = Min(@ + 1, 2)]
              ELSE s1
  IN [emit(s2, "close") EXCEPT !.h_closes = Min(@ + 1, 2)]

----------------------------------------------------------------------------
\* The engine: what settling the oldest operation of the connection's
\* operations chain does to the engine's state

\* the signaling state after a description is set, or "invalid"
NextSignalingState(state, op, type) ==
  IF op = "setLocal" /\ type = "offer"
    THEN IF state \in {"stable", "have-local-offer"}
           THEN "have-local-offer" ELSE "invalid"
  ELSE IF op = "setLocal" /\ type = "answer"
    THEN IF state = "have-remote-offer" THEN "stable" ELSE "invalid"
  ELSE IF op = "setRemote" /\ type = "offer"
    THEN IF state \in {"stable", "have-remote-offer", "have-local-offer"}
           THEN "have-remote-offer" ELSE "invalid"
  ELSE IF op = "setRemote" /\ type = "answer"
    THEN IF state = "have-local-offer" THEN "stable" ELSE "invalid"
  ELSE "invalid"

\* may the engine settle o successfully in state s
CanSucceed(s, o) ==
  IF s.signalingState = "closed" THEN FALSE
  ELSE IF o.op = "createOffer" THEN TRUE
  ELSE IF o.op = "createAnswer" THEN s.signalingState = "have-remote-offer"
  ELSE IF o.op = "addIceCandidate" THEN s.remoteDescription # "none"
  ELSE NextSignalingState(s.signalingState, o.op, o.a) # "invalid"

\* the oldest operation settles with result res
settle(s, res) ==
  LET o == Head(s.pcChain)
      s1 == [s EXCEPT !.pcChain = Tail(@)]
      s2 == IF res = "ok" /\ o.op \in {"setLocal", "setRemote"}
              THEN LET ns == NextSignalingState(s1.signalingState, o.op, o.a)
                       s3 == [s1 EXCEPT !.signalingState = ns,
                                !.remoteDescription =
                                   IF o.op = "setRemote" THEN o.a ELSE @]
                   IN IF ns # s1.signalingState
                        THEN _onSignalingStateChange(s3) ELSE s3
              ELSE s1
  IN queueMicrotask(s2, Task(o.op, o.a, res))

----------------------------------------------------------------------------
\* The state after construction: the constructor creates the data channel
\* on an initiator and ends with _needsNegotiation()

\* The state after construction, as a record
PeerInit(init, tr, nl) ==
  [ initiator |-> init,
    trickle |-> tr,
    nativeLow |-> nl,
    destroyed |-> FALSE,
    destroying |-> FALSE,
    _connected |-> FALSE,
    _connecting |-> FALSE,
    _pcReady |-> FALSE,
    _channelReady |-> FALSE,
    _iceComplete |-> FALSE,
    _iceCompleteTimer |-> "none",
    _isNegotiating |-> FALSE,
    _firstNegotiation |-> TRUE,
    _batchedNegotiation |-> TRUE,
    _queuedNegotiation |-> FALSE,
    _pendingCandidates |-> <<>>,
    _chunk |-> 0,
    _cb |-> 0,
    _interval |-> FALSE,
    _channel |-> init,
    micro |-> << Task("batch", "", "") >>,
    offerTimers |-> 0,
    statsTimers |-> 0,
    iceWaiters |-> <<>>,
    signalingState |-> "stable",
    remoteDescription |-> "none",
    pcChain |-> <<>>,
    statsInFlight |-> 0,
    bufferedAmount |-> 0,
    channelOpen |-> FALSE,
    out |-> <<>>,
    exc |-> FALSE,
    nCands |-> 0,
    nWrites |-> 0,
    nSignals |-> 0,
    h_payload |-> "",
    h_winReqs |-> 1,
    h_negFromWin |-> 0,
    h_owed |-> FALSE,
    h_applied |-> <<>>,
    h_appliedEarly |-> FALSE,
    h_sentLog |-> <<>>,
    h_cbCalls |-> [i \in WriteIds |-> 0],
    h_cbErr |-> [i \in WriteIds |-> FALSE],
    h_phase |-> [i \in WriteIds |-> "none"],
    h_pcReadySeen |-> FALSE,
    h_chReadySeen |-> FALSE,
    h_statsDone |-> FALSE,
    h_connects |-> 0,
    h_early |-> FALSE,
    h_firstDestroy |-> <<>>,
    h_ignored |-> FALSE,
    h_closes |-> 0,
    h_errors |-> 0,
    h_input |-> FALSE,
    h_flushed |-> <<>>,
    h_begins |-> 0 ]

\* a non-initiator with default options
Responder == PeerInit(FALSE, TRUE, TRUE)

Init ==
  /\ initiator \in BOOLEAN /\ trickle \in BOOLEAN /\ nativeLow \in BOOLEAN
  /\ destroyed = FALSE /\ destroying = FALSE
  /\ _connected = FALSE /\ _connecting = FALSE
  /\ _pcReady = FALSE /\ _channelReady = FALSE
  /\ _iceComplete = FALSE /\ _iceCompleteTimer = "none"
  /\ _isNegotiating = FALSE /\ _firstNegotiation = TRUE
  /\ _batchedNegotiation = TRUE /\ _queuedNegotiation = FALSE
  /\ _pendingCandidates = <<>> /\ _chunk = 0 /\ _cb = 0
  /\ _interval = FALSE /\ _channel = initiator
  /\ micro = << Task("batch", "", "") >>
  /\ offerTimers = 0 /\ statsTimers = 0 /\ iceWaiters = <<>>
  /\ signalingState = "stable" /\ remoteDescription = "none"
  /\ pcChain = <<>> /\ statsInFlight = 0
  /\ bufferedAmount = 0 /\ channelOpen = FALSE
  /\ out = <<>> /\ exc = FALSE
  /\ nCands = 0 /\ nWrites = 0 /\ nSignals = 0 /\ h_payload = ""
  /\ h_winReqs = 1 /\ h_negFromWin = 0 /\ h_owed = FALSE
  /\ h_applied = <<>> /\ h_appliedEarly = FALSE
  /\ h_sentLog = <<>>
  /\ h_cbCalls = [i \in WriteIds |-> 0]
  /\ h_cbErr = [i \in WriteIds |-> FALSE]
  /\ h_phase = [i \in WriteIds |-> "none"]
  /\ h_pcReadySeen = FALSE /\ h_chReadySeen = FALSE
  /\ h_statsDone = FALSE /\ h_connects = 0 /\ h_early = FALSE
  /\ h_firstDestroy = <<>> /\ h_ignored = FALSE
  /\ h_closes = 0 /\ h_errors = 0
  /\ h_input = FALSE /\ h_flushed = <<>> /\ h_begins = 0
  /\ remote = Responder /\ h_pending = {} /\ nNegotiations = 0

\* The state after a construction in which the engine's RTCPeerConnection
\* constructor threw: the constructor calls destroy(err) and returns
InitFailed ==
  /\ initiator \in BOOLEAN /\ trickle \in BOOLEAN /\ nativeLow \in BOOLEAN
  /\ destroyed = FALSE /\ destroying = TRUE
  /\ _connected = FALSE /\ _connecting = FALSE
  /\ _pcReady = FALSE /\ _channelReady = FALSE
  /\ _iceComplete = FALSE /\ _iceCompleteTimer = "none"
  /\ _isNegotiating = FALSE /\ _firstNegotiation = TRUE
  /\ _batchedNegotiation = FALSE /\ _queuedNegotiation = FALSE
  /\ _pendingCandidates = <<>> /\ _chunk = 0 /\ _cb = 0
  /\ _interval = FALSE /\ _channel = FALSE
  /\ micro = << Task("destroy", "err", "") >>
  /\ offerTimers = 0 /\ statsTimers = 0 /\ iceWaiters = <<>>
  /\ signalingState = "closed" /\ remoteDescription = "none"
  /\ pcChain = <<>> /\ statsInFlight = 0
  /\ bufferedAmount = 0 /\ channelOpen = FALSE
  /\ out = <<>> /\ exc = FALSE
  /\ nCands = 0 /\ nWrites = 0 /\ nSignals = 0 /\ h_payload = ""
  /\ h_winReqs = 0 /\ h_negFromWin = 0 /\ h_owed = FALSE
  /\ h_applied = <<>> /\ h_appliedEarly = FALSE
  /\ h_sentLog = <<>>
  /\ h_cbCalls = [i \in WriteIds |-> 0]
  /\ h_cbErr = [i \in WriteIds |-> FALSE]
  /\ h_phase = [i \in WriteIds |-> "none"]
  /\ h_pcReadySeen = FALSE /\ h_chReadySeen = FALSE
  /\ h_statsDone = FALSE /\ h_connects = 0 /\ h_early = FALSE
  /\ h_firstDestroy = << "err" >> /\ h_ignored = FALSE
  /\ h_closes = 0 /\ h_errors = 0
  /\ h_input = FALSE /\ h_flushed = <<>> /\ h_begins = 0
  /\ remote = Responder /\ h_pending = {} /\ nNegotiations = 0

\* The state after the construction of an initiator for which the engine's
\* createDataChannel returned no channel: setupData calls destroy(err) and
\* the constructor goes on to _needsNegotiation()
InitNoChannel ==
  /\ initiator = TRUE /\ trickle \in BOOLEAN /\ nativeLow \in BOOLEAN
  /\ destroyed = FALSE /\ destroying = TRUE
  /\ _connected = FALSE /\ _connecting = FALSE
  /\ _pcReady = FALSE /\ _channelReady = FALSE
  /\ _iceComplete = FALSE /\ _iceCompleteTimer = "none"
  /\ _isNegotiating = FALSE /\ _firstNegotiation = TRUE
  /\ _batchedNegotiation = TRUE /\ _queuedNegotiation = FALSE
  /\ _pendingCandidates = <<>> /\ _chunk = 0 /\ _cb = 0
  /\ _interval = FALSE /\ _channel = FALSE
  /\ micro = << Task("destroy", "err", ""), Task("batch", "", "") >>
  /\ offerTimers = 0 /\ statsTimers = 0 /\ iceWaiters = <<>>
  /\ signalingState = "stable" /\ remoteDescription = "none"
  /\ pcChain = <<>> /\ statsInFlight = 0
  /\ bufferedAmount = 0 /\ channelOpen = FALSE
  /\ out = <<>> /\ exc = FALSE
  /\ nCands = 0 /\ nWrites = 0 /\ nSignals = 0 /\ h_payload = ""
  /\ h_winReqs = 1 /\ h_negFromWin = 0 /\ h_owed = FALSE
  /\ h_applied = <<>> /\ h_appliedEarly = FALSE
  /\ h_sentLog = <<>>
  /\ h_cbCalls = [i \in WriteIds |-> 0]
  /\ h_cbErr = [i \in WriteIds |-> FALSE]
  /\ h_phase = [i \in WriteIds |-> "none"]
  /\ h_pcReadySeen = FALSE /\ h_chReadySeen = FALSE
  /\ h_statsDone = FALSE /\ h_connects = 0 /\ h_early = FALSE
  /\ h_firstDestroy = << "err" >> /\ h_ignored = FALSE
  /\ h_closes = 0 /\ h_errors = 0
  /\ h_input = FALSE /\ h_flushed = <<>> /\ h_begins = 0
  /\ remote = Responder /\ h_pending = {} /\ nNegotiations = 0

----------------------------------------------------------------------------
\* Application calls

\* addTrack / removeTrack: the guards of MediaManager, then
\* _needsNegotiation()
AddTrack ==
  /\ h_winReqs < MaxReqs
  /\ Apply(IF destroying THEN InCall
           ELSE IF destroyed THEN throw(InCall)
           ELSE needsNegotiation(InCall))

Negotiate == Apply(negotiate(InCall))

SignalFrom(D) ==
  \E d \in D :
    /\ d.candidate => nCands < MaxCands
    /\ (d.sdp # "none" \/ (d.candidate /\ remoteDescription # "none")) =>
          Len(pcChain) < MaxChain
    /\ d.sdp # "none" => offerTimers < MaxTimers
    /\ d.renegotiate => h_winReqs < MaxReqs
    /\ d.transceiverRequest => h_winReqs < MaxReqs
    /\ LET c == nCands + 1
           s0 == IF d.candidate /\ ~destroying /\ ~destroyed
                   THEN [InCall EXCEPT !.nCands = c] ELSE InCall
       IN Apply(signal(s0, d, c))

\* signal(p)
SignalWith(p) ==
  LET d == toSignalData(parsedData(p))
      c == nCands + 1
      s0 == IF d.candidate /\ ~destroying /\ ~destroyed
              THEN [InCall EXCEPT !.nCands = c, !.nSignals = @ + 1,
                                  !.h_payload = payloadKind(p)]
              ELSE [InCall EXCEPT !.nSignals = @ + 1,
                                  !.h_payload = payloadKind(p)]
  IN /\ nSignals < MaxSignals
     /\ d.candidate => nCands < MaxCands
     /\ (d.sdp # "none" \/ (d.candidate /\ remoteDescription # "none")) =>
           Len(pcChain) < MaxChain
     /\ d.sdp # "none" => offerTimers < MaxTimers
     /\ d.renegotiate => h_winReqs < MaxReqs
     /\ d.transceiverRequest => h_winReqs < MaxReqs
     /\ Apply(signalPayload(s0, p, c))

SignalPayload == \E p \in Payloads : SignalWith(p)

Destroy == \E err \in {"", "err"} : Apply(_destroy(InCall, err))

----------------------------------------------------------------------------
\* Microtasks

RunBatch ==
  /\ micro # <<>> /\ Head(micro).k = "batch"
  /\ Apply(batchedNegotiation([InTask EXCEPT !.micro = Tail(@)], h_winReqs))

RunDestroy ==
  /\ micro # <<>> /\ Head(micro).k = "destroy"
  /\ Apply(destroyTask([InTask EXCEPT !.micro = Tail(@)], Head(micro).a))

DescriptionCreated ==
  /\ micro # <<>> /\ Head(micro).k \in {"createOffer", "createAnswer"}
  /\ Apply(descriptionCreated([InTask EXCEPT !.micro = Tail(@)],
             IF Head(micro).k = "createOffer" THEN "offer" ELSE "answer",
             Head(micro).r))

LocalDescriptionSet ==
  /\ micro # <<>> /\ Head(micro).k = "setLocal"
  /\ Apply(localDescriptionSet([InTask EXCEPT !.micro = Tail(@)],
                               Head(micro).a, Head(micro).r))

RemoteDescriptionSet ==
  /\ micro # <<>> /\ Head(micro).k = "setRemote"
  /\ Apply(remoteDescriptionSet([InTask EXCEPT !.micro = Tail(@)],
                                Head(micro).r))

IceCandidateAdded ==
  /\ micro # <<>> /\ Head(micro).k = "addIceCandidate"
  /\ Apply(iceCandidateAdded([InTask EXCEPT !.micro = Tail(@)],
                             Head(micro).a, Head(micro).r))

----------------------------------------------------------------------------
\* Tasks: timers and engine events, run when no microtask is pending

\* the setTimeout(0) of negotiate() fires
FireOfferTimer ==
  /\ micro = <<>> /\ offerTimers > 0
  /\ Apply(createOffer([InTask EXCEPT !.offerTimers = @ - 1]))

\* the engine settles the oldest operation of its chain
EngineSettle ==
  /\ micro = <<>> /\ pcChain # <<>>
  /\ \E res \in {"ok", "fail"} :
       /\ res = "ok" => CanSucceed(State, Head(pcChain))
       /\ IF Head(pcChain).op = "addIceCandidate" /\ res = "fail"
            THEN \E address \in Addresses :
                   Apply(settle([InTask EXCEPT !.pcChain[1].a = address], res))
            ELSE Apply(settle(InTask, res))

\* a local candidate, or the end-of-candidates marker, is discovered
Discovered(cand) ==
  /\ micro = <<>> /\ ~destroyed
  /\ Apply(onIceCandidate(InTask, cand))

IceCandidate == \E cand \in BOOLEAN : Discovered(cand)

IceCompleteTimer ==
  /\ micro = <<>> /\ _iceCompleteTimer = "pending"
  /\ Apply(iceCompleteTimeout(InTask))

----------------------------------------------------------------------------
\* Data path: application calls

\* the buffered amounts the transport may report after a send
LevelsFrom(b) == {l \in BufferLevels : l >= b}

\* DataChannelManager.write with a fresh payload and callback
Write ==
  /\ nWrites < MaxWrites
  /\ LET id == nWrites + 1
         s0 == [InCall EXCEPT !.nWrites = id,
                  !.h_phase[id] = IF destroyed THEN "dead"
                                  ELSE IF _connected THEN "post" ELSE "pre"]
     IN IF _connected /\ ~destroyed /\ ~destroying
          THEN \E fail \in BOOLEAN : \E lvl \in LevelsFrom(bufferedAmount) :
                 Apply(write(s0, id, fail, lvl))
          ELSE Apply(write(s0, id, FALSE, bufferedAmount))

\* Peer.send with a fresh payload
Send ==
  /\ nWrites < MaxWrites
  /\ LET id == nWrites + 1
         s0 == [InCall EXCEPT !.nWrites = id,
                  !.h_phase[id] = IF _connected THEN "sent" ELSE "early"]
     IN IF _channel /\ channelOpen /\ ~destroyed /\ ~destroying
          THEN \E fail \in BOOLEAN : \E lvl \in LevelsFrom(bufferedAmount) :
                 Apply(send(s0, id, fail, lvl))
          ELSE Apply(send(s0, id, FALSE, bufferedAmount))

----------------------------------------------------------------------------
\* Data path: microtasks and tasks

\* the continuation of the statistics query
RunStats ==
  /\ micro # <<>> /\ Head(micro).k = "stats"
  /\ LET s0 == [InTask EXCEPT !.micro = Tail(@)]
     IN IF ~destroyed /\ ~destroying /\ _chunk # 0 /\ channelOpen
             /\ ~shouldWait(Head(micro).a)
          THEN \E fail \in BOOLEAN : \E lvl \in LevelsFrom(bufferedAmount) :
                 Apply(statsCallback(s0, Head(micro).a, fail, lvl))
          ELSE Apply(statsCallback(s0, Head(micro).a, FALSE, bufferedAmount))

\* the engine settles a statistics query
StatsSettle ==
  /\ micro = <<>> /\ statsInFlight > 0
  /\ \E c \in StatsResults :
       Apply(queueMicrotask([InTask EXCEPT !.statsInFlight = @ - 1,
                                           !.h_statsDone = TRUE],
                            Task("stats", c, "")))

\* the 100 ms retry timer of findCandidatePair fires
StatsRetry ==
  /\ micro = <<>> /\ statsTimers > 0
  /\ Apply(findCandidatePair([InTask EXCEPT !.statsTimers = @ - 1]))

\* ondatachannel on a session that did not create the channel: setupData
DataChannel ==
  /\ micro = <<>> /\ ~destroyed /\ ~initiator /\ ~_channel
  /\ Apply([InTask EXCEPT !._channel = TRUE])

\* the channel opens
ChannelOpen ==
  /\ micro = <<>> /\ ~destroyed /\ _channel
  /\ Apply(onChannelOpen([InTask EXCEPT !.channelOpen = TRUE]))

\* oniceconnectionstatechange / onicegatheringstatechange
IceStates ==
  { "new", "checking", "connected", "completed", "disconnected", "failed",
    "closed" }

IceStateChangeTo(ics) ==
  /\ micro = <<>> /\ ~destroyed
  /\ Apply(onIceStateChange(InTask, ics))

IceStateChange == \E ics \in IceStates : IceStateChangeTo(ics)

\* the transport's buffered amount decreases to lvl; bufferedamountlow is
\* fired in the same task when the amount crosses the threshold, which is
\* MAX_BUFFERED_AMOUNT where setupData could set it and 0 otherwise (where
\* the event may also never be fired)
BufferedAmountDecrease ==
  /\ micro = <<>>
  /\ \E lvl \in BufferLevels : \E fires \in BOOLEAN :
       /\ lvl < bufferedAmount
       /\ nativeLow => fires
       /\ LET thr == IF nativeLow THEN MAX_BUFFERED_AMOUNT ELSE 0
              s0 == [InTask EXCEPT !.bufferedAmount = lvl]
          IN IF fires /\ bufferedAmount > thr /\ lvl <= thr
               THEN Apply(onChannelBufferedAmountLow(s0))
               ELSE Apply(s0)

\* the 150 ms fallback poll
IntervalTick ==
  /\ micro = <<>> /\ _interval
  /\ Apply(_onInterval(InTask))

----------------------------------------------------------------------------
\* Faults the engine reports

\* _channel.onerror
ChannelError ==
  /\ micro = <<>> /\ ~destroyed /\ _channel
  /\ Apply(_destroy(InTask, "err"))

onChannelClose(s) == IF s.destroyed THEN s ELSE _destroy(s, "")

\* _channel.onclose, or the closing-timeout poll standing in for it
ChannelClose ==
  /\ micro = <<>> /\ ~destroyed /\ _channel
  /\ Apply(onChannelClose(InTask))

\* failed says the connection state the engine reports is 'failed'
_onConnectionStateChange(s, failed) ==
  IF s.destroyed THEN s
  ELSE IF failed THEN _destroy(s, "err")
  ELSE s

\* _pc.onconnectionstatechange
ConnectionStateChangeTo(failed) ==
  /\ micro = <<>> /\ ~destroyed
  /\ Apply(_onConnectionStateChange(InTask, failed))

ConnectionStateChange == \E failed \in BOOLEAN : ConnectionStateChangeTo(failed)

----------------------------------------------------------------------------
\* The negotiation coordinator: trickle enabled, no remote candidates

InitNeg == Init /\ trickle /\ nativeLow

SignalNeg == SignalFrom({d \in SignalData : ~d.candidate})

NextNeg ==
  \/ AddTrack \/ Negotiate \/ SignalNeg \/ Destroy
  \/ RunBatch \/ RunDestroy
  \/ DescriptionCreated \/ LocalDescriptionSet \/ RemoteDescriptionSet
  \/ FireOfferTimer \/ EngineSettle

SpecNeg == InitNeg /\ [][NextNeg]_vars

----------------------------------------------------------------------------
\* The remote-candidate buffer: candidates and descriptions arrive through
\* signal(); the only negotiation is the one the constructor requests

InitCand == Init /\ trickle /\ nativeLow

SignalCand ==
  SignalFrom({d \in SignalData : ~d.renegotiate /\ ~d.transceiverRequest})

NextCand ==
  \/ SignalCand \/ Destroy
  \/ RunBatch \/ RunDestroy
  \/ DescriptionCreated \/ LocalDescriptionSet \/ RemoteDescriptionSet
  \/ IceCandidateAdded
  \/ FireOfferTimer \/ EngineSettle

SpecCand == InitCand /\ [][NextCand]_vars

----------------------------------------------------------------------------
\* The readiness detector and the data path gate

InitData == Init /\ trickle

NextData ==
  \/ Write \/ Send \/ Destroy
  \/ RunBatch \/ RunDestroy \/ RunStats
  \/ StatsSettle \/ StatsRetry
  \/ DataChannel \/ ChannelOpen \/ IceStateChange
  \/ BufferedAmountDecrease \/ IntervalTick

SpecData == InitData /\ [][NextData]_vars

----------------------------------------------------------------------------
\* Fairness the event loop guarantees: a queued microtask runs

RunMicrotask ==
  \/ RunBatch \/ RunDestroy
  \/ DescriptionCreated \/ LocalDescriptionSet \/ RemoteDescriptionSet
  \/ IceCandidateAdded \/ RunStats

\* Queued renegotiation: negotiate() calls and remote descriptions only
SignalSdp ==
  SignalFrom({d \in SignalData : ~d.renegotiate /\ ~d.transceiverRequest
                                 /\ ~d.candidate /\ d.sdp # "none"})

NextQueue ==
  \/ Negotiate \/ SignalSdp \/ Destroy
  \/ RunBatch \/ RunDestroy
  \/ DescriptionCreated \/ LocalDescriptionSet \/ RemoteDescriptionSet
  \/ FireOfferTimer \/ EngineSettle

FairSpecQueue == InitNeg /\ [][NextQueue]_vars /\ WF_vars(RunMicrotask)

----------------------------------------------------------------------------
\* Candidate gathering: local candidates, the end-of-candidates marker and
\* the completion timer, with trickle enabled or disabled

InitIce == Init /\ nativeLow

NextIce ==
  \/ SignalSdp \/ Destroy
  \/ RunBatch \/ RunDestroy
  \/ DescriptionCreated \/ LocalDescriptionSet \/ RemoteDescriptionSet
  \/ FireOfferTimer
  \/ (Len(iceWaiters) < MaxWaiters /\ EngineSettle)
  \/ IceCandidate \/ IceCompleteTimer

SpecIce == InitIce /\ [][NextIce]_vars

----------------------------------------------------------------------------
\* Teardown: every caller of destroy

\* destroy(err) by the application; h_ignored notes a call carrying an error
\* that follows a first _destroy call that carried none
DestroyNoted ==
  \E err \in {"", "err"} :
    Apply([_destroy(InCall, err) EXCEPT
             !.h_ignored = @ \/ (err # "" /\ h_firstDestroy = << "" >>)])

InitTeardown == (Init \/ InitFailed) /\ trickle /\ nativeLow

SignalTeardown ==
  SignalFrom({d \in SignalData : ~d.renegotiate /\ ~d.transceiverRequest})

\* the engine opens the channel and reports connectivity only once the
\* description exchange has ended, and in this specification is idle then
Established ==
  /\ remoteDescription # "none" /\ signalingState = "stable"
  /\ micro = <<>> /\ pcChain = <<>> /\ offerTimers = 0

\* the data path has started; from then on no signaling input arrives
\* while the session is live
DataStarted ==
  channelOpen \/ h_pcReadySeen \/ nWrites > 0 \/ (~initiator /\ _channel)

NextTeardown ==
  \/ (~DataStarted /\ SignalTeardown)
  \/ DestroyNoted
  \/ (Established /\ Write)
  \/ RunBatch \/ RunDestroy
  \/ DescriptionCreated \/ LocalDescriptionSet \/ RemoteDescriptionSet
  \/ IceCandidateAdded \/ RunStats
  \/ FireOfferTimer \/ EngineSettle
  \/ StatsSettle \/ StatsRetry
  \/ (Established /\ DataChannel)
  \/ (Established /\ ChannelOpen)
  \/ (Established /\ IceStateChange)
  \/ ChannelError \/ ChannelClose \/ ConnectionStateChange

SpecTeardown == InitTeardown /\ [][NextTeardown]_vars

----------------------------------------------------------------------------
\* Continuations that outlive the session: teardown with candidate
\* gathering, from every state a construction may leave

InitLate == (Init \/ InitNoChannel) /\ trickle /\ nativeLow

NextLate == NextTeardown \/ IceCandidate \/ IceCompleteTimer

SpecLate == InitLate /\ [][NextLate]_vars

----------------------------------------------------------------------------
\* Two sessions in one event loop, wired signal to signal: this session is
\* the initiator, remote the responder; neither gathers candidates, and the
\* engine rejects an operation only when its signaling state forbids it

\* the state a task or microtask of session s starts from
inTask(s) == [s EXCEPT !.out = <<>>, !.exc = FALSE, !.h_winReqs = 0]

\* the state a call on session s starts from
inCall(s) == [s EXCEPT !.out = <<>>, !.exc = FALSE, !.h_input = TRUE]

IsSignal(e) ==
  e \in {"signal:offer", "signal:answer", "signal:renegotiate",
         "signal:transceiverRequest"}

\* the payload of a signal event
signalOf(e) ==
  [ renegotiate |-> e = "signal:renegotiate",
    transceiverRequest |-> e = "signal:transceiverRequest",
    candidate |-> FALSE,
    sdp |-> IF e = "signal:offer" THEN "offer"
            ELSE IF e = "signal:answer" THEN "answer" ELSE "none" ]

\* setupSignaling: each signal event in o is passed, as it is emitted, to
\* signal() of session s unless s is destroyed
RECURSIVE passSignals(_, _)
passSignals(s, o) ==
  IF o = <<>> THEN s
  ELSE IF IsSignal(Head(o)) /\ ~s.destroyed
    THEN passSignals(signal(s, signalOf(Head(o)), 0), Tail(o))
  ELSE passSignals(s, Tail(o))

\* session s after the events in o, emitted by the other session
wired(s, o) ==
  IF \E i \in DOMAIN o : IsSignal(o[i]) THEN passSignals(inCall(s), o) ELSE s

\* the oldest microtask of session s runs
runMicrotask(s) ==
  LET t == Head(s.micro)
      s0 == [inTask(s) EXCEPT !.micro = Tail(@)]
  IN CASE t.k = "batch" -> batchedNegotiation(s0, s.h_winReqs)
       [] t.k = "destroy" -> destroyTask(s0, t.a)
       [] t.k = "createOffer" -> descriptionCreated(s0, "offer", t.r)
       [] t.k = "createAnswer" -> descriptionCreated(s0, "answer", t.r)
       [] t.k = "setLocal" -> localDescriptionSet(s0, t.a, t.r)
       [] t.k = "setRemote" -> remoteDescriptionSet(s0, t.r)

\* the setTimeout(0) of negotiate() fires on session s
fireOfferTimer(s) == createOffer([inTask(s) EXCEPT !.offerTimers = @ - 1])

\* the engine of session s settles its oldest operation
engineSettle(s) ==
  settle(inTask(s), IF CanSucceed(s, Head(s.pcChain)) THEN "ok" ELSE "fail")

\* the sides still to emit negotiated, after side has emitted o
stillPending(side, o) ==
  IF \E i \in DOMAIN o : o[i] = "negotiated"
    THEN h_pending \ {side} ELSE h_pending

\* this session takes a step to s, its signals reaching the remote one
LocalActs(s) ==
  /\ ApplyLocal(s)
  /\ remote' = wired(remote, s.out)
  /\ h_pending' = stillPending("local", s.out)
  /\ UNCHANGED nNegotiations

\* the remote session takes a step to r, its signals reaching this one
RemoteActs(r) ==
  /\ remote' = r
  /\ ApplyLocal(wired(State, r.out))
  /\ h_pending' = stillPending("remote", r.out)
  /\ UNCHANGED nNegotiations

\* no microtask is pending in the event loop
LoopIdle == micro = <<>> /\ remote.micro = <<>>

LocalMicrotask == micro # <<>> /\ LocalActs(runMicrotask(State))

RemoteMicrotask == remote.micro # <<>> /\ RemoteActs(runMicrotask(remote))

LocalOfferTimer ==
  LoopIdle /\ offerTimers > 0 /\ LocalActs(fireOfferTimer(State))

LocalSettle == LoopIdle /\ pcChain # <<>> /\ LocalActs(engineSettle(State))

RemoteSettle ==
  LoopIdle /\ remote.pcChain # <<>> /\ RemoteActs(engineSettle(remote))

\* the first exchange of descriptions has ended: each session holds a
\* description of the other
BothConnected ==
  remoteDescription # "none" /\ remote.remoteDescription # "none"

\* negotiate() on the initiator, once the sessions are connected
NegotiateWired ==
  /\ BothConnected /\ nNegotiations < MaxNegotiations
  /\ ApplyLocal(negotiate(InCall))
  /\ remote' = wired(remote, negotiate(InCall).out)
  /\ h_pending' = {"local", "remote"}
  /\ nNegotiations' = nNegotiations + 1

InitWired == Init /\ initiator /\ trickle /\ nativeLow

NextWired ==
  \/ NegotiateWired
  \/ LocalMicrotask \/ RemoteMicrotask
  \/ LocalOfferTimer \/ LocalSettle \/ RemoteSettle

\* the event loop runs every queued microtask and due timer, and the engine
\* settles every operation
FairSpecWired ==
  /\ InitWired /\ [][NextWired]_vars
  /\ WF_vars(LocalMicrotask) /\ WF_vars(RemoteMicrotask)
  /\ WF_vars(LocalOfferTimer)
  /\ WF_vars(LocalSettle) /\ WF_vars(RemoteSettle)

----------------------------------------------------------------------------
\* Calls on a destroyed session: the data path, with negotiate(), signal()
\* and addTrack() called once the session is destroyed

InitAfter == Init /\ trickle

SignalAfter == destroyed /\ SignalFrom(SignalData)

NextAfter ==
  \/ Write \/ Send \/ Destroy
  \/ (destroyed /\ Negotiate) \/ SignalAfter \/ (destroyed /\ AddTrack)
  \/ RunBatch \/ RunDestroy \/ RunStats
  \/ StatsSettle \/ StatsRetry
  \/ DataChannel \/ ChannelOpen \/ IceStateChange
  \/ BufferedAmountDecrease \/ IntervalTick

SpecAfter == InitAfter /\ [][NextAfter]_vars

----------------------------------------------------------------------------
\* Calls between destroy() and the teardown microtask: the data path, with
\* negotiate(), signal() and addTrack() called while the session is being
\* destroyed

SignalDuring == destroying /\ SignalFrom(SignalData)

NextDuring ==
  \/ Write \/ Send \/ Destroy
  \/ (destroying /\ Negotiate) \/ SignalDuring \/ (destroying /\ AddTrack)
  \/ RunBatch \/ RunDestroy \/ RunStats
  \/ StatsSettle \/ StatsRetry
  \/ DataChannel \/ ChannelOpen \/ IceStateChange
  \/ BufferedAmountDecrease \/ IntervalTick

SpecDuring == InitAfter /\ [][NextDuring]_vars

----------------------------------------------------------------------------
\* signal() with arbitrary arguments: trickle enabled

InitSignal == Init /\ trickle /\ nativeLow

NextSignal ==
  \/ SignalPayload
  \/ RunBatch \/ RunDestroy
  \/ DescriptionCreated \/ LocalDescriptionSet \/ RemoteDescriptionSet
  \/ IceCandidateAdded
  \/ FireOfferTimer \/ EngineSettle

SpecSignal == InitSignal /\ [][NextSignal]_vars

----------------------------------------------------------------------------
\* Properties

Emitted(e) == \E i \in DOMAIN out : out[i] = e

BatchesQueued == Cardinality({i \in DOMAIN micro : micro[i].k = "batch"})

\* a microtask ran in this step
MicrotaskStep == micro # <<>> /\ micro' = Tail(micro)

\* C1: however many needsNegotiation() calls are made in one synchronous
\* window, at most one batch microtask is pending for them and the batches
\* scheduled from that window execute negotiate() at most once
C1_OneNegotiationPerWindow ==
  /\ BatchesQueued <= 1
  /\ h_negFromWin <= 1
  /\ (BatchesQueued = 1) = _batchedNegotiation

\* several requests of one window have just been served by one negotiate()
C1_Witness == Emitted("#collapsed") /\ Emitted("#negotiate")

\* C2: while a negotiation is in flight no step starts an offer creation or
\* emits a renegotiate request, a negotiate() call only sets the queue flag,
\* and the in-flight flag is cleared only by a return to stable
C2_NoConcurrentNegotiation ==
  [][ _isNegotiating =>
        /\ offerTimers' <= offerTimers
        /\ ~Emitted("signal:renegotiate")'
        /\ Emitted("#negotiate")' => _queuedNegotiation'
        /\ ~_isNegotiating' => signalingState' = "stable" ]_vars

\* negotiate() has just been called during an in-flight negotiation
C2_Witness ==
  Emitted("#negotiate") /\ _isNegotiating /\ _queuedNegotiation
  /\ ~Emitted("signal:renegotiate")

\* C3: the queue flag is cleared only by the flush at the return to stable,
\* and a flushed request is followed by a negotiate() call unless the
\* session is being destroyed
C3_QueuedRequestNotLost ==
  /\ [][ (_queuedNegotiation /\ ~_queuedNegotiation') => h_owed' ]_vars
  /\ (h_owed ~> (~h_owed \/ destroying \/ destroyed))

\* a negotiate() call has just served a flushed queue
C3_Witness == Emitted("#served") /\ ~destroying /\ ~destroyed

\* C4: a candidate that arrives while there is no remote description is
\* appended to the buffer and does not destroy the session; no candidate is
\* handed to the engine before a remote description exists; the
\* continuation of an accepted remote description hands the whole buffer to
\* the engine in arrival order and empties it
C4_BufferedCandidatesFlushed ==
  /\ [][ (nCands' = nCands + 1 /\ remoteDescription = "none") =>
            /\ _pendingCandidates' = Append(_pendingCandidates, nCands')
            /\ h_applied' = h_applied
            /\ destroying' = destroying ]_vars
  /\ [][ (MicrotaskStep /\ Head(micro).k = "setRemote"
                        /\ Head(micro).r = "ok") =>
            /\ h_applied' = h_applied \o _pendingCandidates
            /\ _pendingCandidates' = <<>> ]_vars
  /\ [] ~h_appliedEarly

\* two buffered candidates have just been flushed, in order
C4_Witness ==
  Emitted("#flush") /\ h_applied = <<1, 2>> /\ _pendingCandidates = <<>>
  /\ ~destroying /\ ~destroyed

\* Fairness of the readiness confirmation: microtasks run, the engine
\* settles a pending statistics query, the retry timer fires
FairSpecData ==
  /\ SpecData
  /\ WF_vars(RunMicrotask) /\ WF_vars(StatsSettle) /\ WF_vars(StatsRetry)

\* C5: the session is connected, and connect has been emitted, only after
\* transport-ready and channel-ready have both been observed and a
\* statistics query has completed
C5_ConnectedOnlyAfterBothAndStats ==
  (_connected \/ h_connects > 0 \/ Emitted("connect")) =>
     (h_pcReadySeen /\ h_chReadySeen /\ h_statsDone)

\* connect has just been emitted on a live session
C5_Witness ==
  Emitted("connect") /\ _connected /\ ~destroying /\ ~destroyed
  /\ h_pcReadySeen /\ h_chReadySeen

\* C6: once transport-ready and channel-ready are both set on a live
\* session, connected is eventually declared (unless the session is
\* destroyed), whatever the statistics queries return
C6_ConnectedEventually ==
  (_pcReady /\ _channelReady /\ ~destroying /\ ~destroyed)
     ~> (_connected \/ destroying \/ destroyed)

Count(seq, x) == Cardinality({i \in DOMAIN seq : seq[i] = x})

PreIds == {id \in WriteIds : h_phase[id] = "pre"}
\* written, or written or sent, on a connected session
PostWrites == {id \in WriteIds : h_phase[id] = "post"}
PostIds == {id \in WriteIds : h_phase[id] \in {"post", "sent"}}

C8_PendingWriteExactlyOnce ==
  /\ \A id \in PreIds : Count(h_sentLog, id) <= 1 /\ h_cbCalls[id] <= 1
  /\ (h_connects > 0 /\ ~destroying /\ ~destroyed) =>
       \A id \in PreIds :
         Count(h_sentLog, id) = 1 /\ h_cbCalls[id] = 1 /\ ~h_cbErr[id]

\* C9: the callback of a write made on a connected session is never
\* invoked while the transport reports more than MAX_BUFFERED_AMOUNT: it is
\* invoked in the write itself when the amount does not exceed the
\* watermark, and is otherwise kept in the slot, not yet invoked
C9_Backpressure ==
  /\ [] ~h_early
  /\ [] (_cb # 0 /\ _cb \in PostWrites => h_cbCalls[_cb] = 0)
  /\ [][ \A id \in WriteIds :
           (nWrites' = id /\ nWrites # id /\ h_phase'[id] = "post"
              /\ h_sentLog' = Append(h_sentLog, id)) =>
             IF bufferedAmount' > MAX_BUFFERED_AMOUNT
               THEN _cb' = id /\ h_cbCalls'[id] = 0
               ELSE h_cbCalls'[id] = 1 /\ ~h_cbErr'[id] ]_vars

\* a withheld callback has just been released, the amount being back at or
\* under the watermark
C9_Witness ==
  /\ Emitted("#released") /\ bufferedAmount <= MAX_BUFFERED_AMOUNT
  /\ \E id \in PostWrites : h_cbCalls[id] = 1 /\ _cb # id

\* C10: no write completion callback is invoked twice
C10_NoDoubleRelease == \A id \in WriteIds : h_cbCalls[id] <= 1

\* a withheld callback has just been released on a session where the
\* fallback poll is running
C10_Witness ==
  /\ Emitted("#released") /\ _interval /\ ~nativeLow /\ _cb = 0
  /\ \E id \in PostWrites : h_cbCalls[id] = 1

\* C11: however many times destroy is called, by the application or by a
\* fault handler, close is emitted exactly once, when the session becomes
\* destroyed, and error is emitted exactly once if the first call carried
\* an error and never otherwise; a later destroy(err) of the application
\* changes nothing and emits nothing
C11_DestroyIdempotent ==
  /\ [] (h_closes <= 1 /\ h_errors <= 1)
  /\ [] (destroyed =>
           /\ h_closes = 1
           /\ (h_errors = 1) = (h_firstDestroy = << "err" >>))
  /\ [] (~destroyed => h_closes = 0 /\ h_errors = 0)
  /\ [][ (~h_ignored /\ h_ignored') =>
            /\ ~Emitted("close")' /\ ~Emitted("error")'
            /\ destroying' = destroying /\ destroyed' = destroyed
            /\ h_closes' = h_closes /\ h_errors' = h_errors ]_vars

\* the application has called destroy(err) on a session whose first destroy
\* call carried no error: one close, no error
C11_Witness ==
  /\ destroyed /\ h_ignored /\ h_firstDestroy = << "" >>
  /\ h_closes = 1 /\ h_errors = 0

\* the description signals in a step's output
SdpSignals(o) ==
  Cardinality({i \in DOMAIN o : o[i] \in {"signal:offer", "signal:answer"}})

\* the continuation of a successful setLocalDescription runs on a session
\* that is not destroyed
LocalSetStep ==
  /\ MicrotaskStep /\ Head(micro).k = "setLocal" /\ Head(micro).r = "ok"
  /\ ~destroyed

TimerStep == _iceCompleteTimer = "pending" /\ _iceCompleteTimer' = "fired"

\* C13: the completion timer that fires before gathering completed emits
\* iceTimeout, marks gathering complete, does not destroy the session and
\* emits every description signal that was waiting; iceTimeout is emitted
\* by nothing else, hence at most once, and never once gathering completed
C13_IceTimeoutOnce ==
  /\ [][ (TimerStep /\ ~_iceComplete) =>
            /\ Emitted("iceTimeout")' /\ _iceComplete'
            /\ destroying' = destroying /\ destroyed' = destroyed
            /\ iceWaiters' = <<>>
            /\ SdpSignals(out') = Len(iceWaiters) ]_vars
  /\ [][ Emitted("iceTimeout")' => (TimerStep /\ ~_iceComplete) ]_vars
  /\ [][ _iceComplete => (_iceComplete' /\ ~Emitted("iceTimeout")') ]_vars
  /\ [][ _iceCompleteTimer = "fired" => _iceCompleteTimer' # "pending" ]_vars

\* the timer has just fired before the end of gathering and released a
\* waiting description signal
C13_Witness ==
  /\ Emitted("iceTimeout") /\ Emitted("#deferred") /\ SdpSignals(out) = 1
  /\ _iceComplete /\ _iceCompleteTimer = "fired"
  /\ ~destroying /\ ~destroyed

\* the signals in a step's output
AnySignal(o) ==
  \E i \in DOMAIN o :
    o[i] \in {"signal:offer", "signal:answer", "signal:candidate",
              "signal:renegotiate", "signal:transceiverRequest"}

\* the microtask of needsNegotiation runs
BatchStep == MicrotaskStep /\ Head(micro).k = "batch"

\* C14: the first batch microtask of a non-initiator only clears the
\* first-negotiation flag: it emits nothing and starts nothing; every other
\* batch microtask calls negotiate(), which acts unless the session is
\* being or has been destroyed; and a non-initiator the application has
\* not called emits no signal
C14_FirstResponderNegotiationSuppressed ==
  /\ [][ BatchStep =>
            IF ~initiator /\ _firstNegotiation
              THEN /\ out' = <<>> /\ ~_firstNegotiation'
                   /\ _isNegotiating' = _isNegotiating
                   /\ _queuedNegotiation' = _queuedNegotiation
                   /\ offerTimers' = offerTimers
              ELSE destroying \/ destroyed \/ Emitted("#negotiate")' ]_vars
  /\ [] ((~initiator /\ ~h_input) => ~AnySignal(out))

\* a later batch microtask of a non-initiator has just requested a
\* negotiation from the initiator
C14_Witness ==
  /\ ~initiator /\ ~_firstNegotiation /\ Emitted("#collapsed")
  /\ Emitted("#negotiate") /\ Emitted("signal:renegotiate")

\* a fatal fault is detected: a description or candidate operation fails, the
\* channel reports an error, the connection or its ICE transport is reported
\* failed or closed, or the transport's send throws under a write of a
\* connected session
FaultDetected ==
  \/ /\ micro # <<>> /\ Head(micro).r = "fail"
     /\ \/ DescriptionCreated \/ LocalDescriptionSet \/ RemoteDescriptionSet
        \/ /\ IceCandidateAdded
           /\ Head(micro).a # "" /\ ~endsWith(Head(micro).a, ".local")
  \/ ChannelError
  \/ /\ micro = <<>> /\ ~destroyed
     /\ Apply(_onConnectionStateChange(InTask, TRUE))
  \/ /\ micro = <<>> /\ ~destroyed
     /\ \E ics \in {"failed", "closed"} : Apply(onIceStateChange(InTask, ics))
  \/ /\ _connected /\ ~destroying /\ ~destroyed
     /\ nWrites' = nWrites + 1 /\ h_sentLog' = h_sentLog

\* the teardown microtask is pending and carries err
DestroyPending(err) ==
  \E i \in DOMAIN micro : micro[i].k = "destroy" /\ micro[i].a = err

DestroyStep == MicrotaskStep /\ Head(micro).k = "destroy"

\* o holds one error and one close, the error first
ErrorThenClose(o) ==
  /\ Cardinality({i \in DOMAIN o : o[i] = "error"}) = 1
  /\ Cardinality({i \in DOMAIN o : o[i] = "close"}) = 1
  /\ \A i, j \in DOMAIN o : (o[i] = "error" /\ o[j] = "close") => i < j

\* C16 as stated: whenever a fatal fault is detected, by whichever
\* component, the session's single error notification is pending or has been
\* emitted, and it is emitted once, followed by the single close
C16_EveryFaultOneErrorThenClose ==
  /\ [][ FaultDetected =>
            (DestroyPending("err") \/ (destroyed /\ h_errors = 1))' ]_vars
  /\ [][ (DestroyStep /\ Head(micro).a = "err") =>
            (destroyed /\ ErrorThenClose(out))' ]_vars
  /\ [][ ~DestroyStep => (~Emitted("error") /\ ~Emitted("close"))' ]_vars
  /\ [] (h_errors <= 1 /\ h_closes <= 1)

\* C16: unless a teardown without error was requested first, every fatal
\* fault, whichever component detects it and however many occur, finds the
\* session's single error notification pending or emitted; the teardown
\* microtask stays pending while the session is being destroyed; error and
\* close are emitted once each, by that microtask only, error first
C16_FaultFirstOneErrorThenClose ==
  /\ [][ (FaultDetected /\ h_firstDestroy # << "" >>) =>
            (DestroyPending("err") \/ (destroyed /\ h_errors = 1))' ]_vars
  /\ [] (destroying => \E e \in {"", "err"} : DestroyPending(e))
  /\ [][ (DestroyStep /\ Head(micro).a = "err") =>
            (destroyed /\ ErrorThenClose(out))' ]_vars
  /\ [][ ~DestroyStep => (~Emitted("error") /\ ~Emitted("close"))' ]_vars
  /\ [] (h_errors <= 1 /\ h_closes <= 1)

\* a session no application call has touched was destroyed by a fault and
\* has just emitted error, then close
C16_Witness ==
  /\ destroyed /\ ~h_input /\ out = << "error", "close" >>
  /\ h_errors = 1 /\ h_closes = 1

\* the continuation of a rejected candidate application runs on a session
\* that is neither destroyed nor being destroyed
CandidateFailedStep ==
  /\ micro # <<>> /\ Head(micro).k = "addIceCandidate"
  /\ Head(micro).r = "fail" /\ ~destroying /\ ~destroyed
  /\ \/ micro' = Tail(micro)
     \/ micro' = Append(Tail(micro), Task("destroy", "err", ""))

\* a is absent, or some prefix of a followed by ".local" is a
LooksLocal(a) ==
  \/ a = ""
  \/ \E k \in 0..Len(chars(a)) :
       chars(a) = SubSeq(chars(a), 1, k) \o chars(".local")

\* C17: when the engine rejects a remote candidate whose address is absent
\* or ends in ".local", the session is left as it was, with only a warning
\* logged: no teardown starts and no error is emitted; when it rejects a
\* candidate with any other address, the teardown starts, carrying the error
C17_LocalCandidateFailureSwallowed ==
  [][ CandidateFailedStep =>
        IF LooksLocal(Head(micro).a)
          THEN /\ out' = << "#warn" >> /\ micro' = Tail(micro)
               /\ ~destroying' /\ ~destroyed'
               /\ h_firstDestroy' = h_firstDestroy
          ELSE /\ destroying' /\ DestroyPending("err")'
               /\ h_firstDestroy' = << "err" >> ]_vars

\* the failure of a candidate whose address is absent or ends in ".local"
\* has just been swallowed on a live session that goes on applying candidates
C17_Witness ==
  /\ Emitted("#warn") /\ ~destroying /\ ~destroyed /\ h_firstDestroy = <<>>
  /\ pcChain # <<>> /\ Head(pcChain).op = "addIceCandidate"

\* signal() was called on a live session in this step
LiveSignalStep == nSignals' = nSignals + 1 /\ ~destroying /\ ~destroyed

\* signal() has started the teardown with its error and done nothing else
RejectedPayload ==
  /\ destroying' /\ ~destroyed' /\ h_firstDestroy' = << "err" >>
  /\ micro' = Append(micro, Task("destroy", "err", ""))
  /\ out' = <<>> /\ ~exc'
  /\ pcChain' = pcChain /\ _pendingCandidates' = _pendingCandidates
  /\ _batchedNegotiation' = _batchedNegotiation
  /\ _isNegotiating' = _isNegotiating
  /\ _queuedNegotiation' = _queuedNegotiation
  /\ offerTimers' = offerTimers /\ h_applied' = h_applied

EarlySendStep ==
  /\ nWrites' = nWrites + 1 /\ h_phase'[nWrites'] = "early"
  /\ ~destroying /\ ~destroyed

\* C19: send() called before connect has been emitted throws to the caller
\* and hands nothing to the transport
C19_SendBeforeConnectThrows ==
  [][ EarlySendStep => (exc' /\ h_sentLog' = h_sentLog) ]_vars

\* the session's own state, the scheduler's and the engine's
sessionVars ==
  << initiator, trickle, nativeLow, destroyed, destroying,
     _connected, _connecting, _pcReady, _channelReady,
     _iceComplete, _iceCompleteTimer,
     _isNegotiating, _firstNegotiation, _batchedNegotiation,
     _queuedNegotiation, _pendingCandidates, _chunk, _cb, _interval,
     _channel, micro, offerTimers, statsTimers, iceWaiters,
     signalingState, remoteDescription, pcChain, statsInFlight,
     bufferedAmount, channelOpen, h_sentLog >>

\* C20: on a destroyed session signal(), send(), negotiate() and addTrack()
\* throw to the caller, and write() invokes its callback once, with an
\* error; none of them emits anything, hands anything to the transport or
\* changes the state of the session, the scheduler or the engine
C20_RejectedAfterDestroy ==
  /\ [][ (destroyed /\ (Negotiate \/ Send \/ SignalAfter \/ AddTrack)) =>
           (exc' /\ out' = <<>> /\ UNCHANGED sessionVars) ]_vars
  /\ [][ (destroyed /\ Write) =>
           /\ ~exc' /\ out' = <<>> /\ UNCHANGED sessionVars
           /\ h_cbCalls'[nWrites'] = 1 /\ h_cbErr'[nWrites'] ]_vars

\* on a destroyed session a write has been failed through its callback and
\* the call made after it has thrown
C20_Witness ==
  /\ destroyed /\ exc /\ out = <<>> /\ h_sentLog = <<>>
  /\ \E id \in 1..nWrites :
       h_phase[id] = "dead" /\ h_cbCalls[id] = 1 /\ h_cbErr[id]

\* the continuation of an accepted remote description is the next microtask
\* but for batch microtasks queued by the same engine task
RemoteSetPending ==
  \E i \in DOMAIN micro :
    /\ micro[i].k = "setRemote" /\ micro[i].r = "ok"
    /\ \A j \in 1..(i - 1) : micro[j].k = "batch"

\* the continuation of an accepted remote description runs
RemoteSetStep ==
  MicrotaskStep /\ Head(micro).k = "setRemote" /\ Head(micro).r = "ok"

\* C21: the buffer of pending candidates is non-empty only while the engine
\* holds no remote description, or has just accepted one whose continuation
\* is about to run; only that continuation takes candidates out of the
\* buffer, and it hands all of them to the engine in arrival order; a
\* non-empty buffer is flushed at most once, and from then on the buffer
\* stays empty
C21_BufferOnlyBeforeRemoteDescription ==
  /\ [] (_pendingCandidates # <<>> =>
           (remoteDescription = "none" \/ RemoteSetPending))
  /\ [] (Len(h_flushed) <= 1)
  /\ [] (h_flushed # <<>> => _pendingCandidates = <<>>)
  /\ [][ (_pendingCandidates # <<>>
            /\ _pendingCandidates' # _pendingCandidates) =>
           \/ /\ remoteDescription = "none"
              /\ _pendingCandidates' = Append(_pendingCandidates, nCands')
           \/ /\ RemoteSetStep /\ ~destroyed
              /\ _pendingCandidates' = <<>>
              /\ h_applied' = h_applied \o _pendingCandidates
              /\ h_flushed' = << Len(_pendingCandidates) >> ]_vars
  /\ [][ (RemoteSetStep /\ ~destroyed) => _pendingCandidates' = <<>> ]_vars

\* one candidate was buffered and flushed when the remote description was
\* accepted, and a candidate that arrived later went straight to the engine
C21_Witness ==
  /\ h_flushed = << 1 >> /\ h_applied = << 1, 2 >>
  /\ _pendingCandidates = <<>> /\ remoteDescription # "none"
  /\ ~destroying /\ ~destroyed

\* C22: while the session is being destroyed, signal(), send(), write(),
\* negotiate() and addTrack(), and the engine's callbacks (candidate
\* discovered, transport state change, channel open, buffered amount low),
\* leave the session, the scheduler and the engine as they are, emit nothing
\* and invoke no callback
C22_NoOpWhileDestroying ==
  [][ (destroying /\ (\/ SignalDuring \/ Send \/ Write \/ Negotiate
                      \/ AddTrack \/ IceCandidate \/ IceStateChange
                      \/ ChannelOpen \/ BufferedAmountDecrease)) =>
        /\ out' = <<>> /\ ~exc' /\ UNCHANGED sessionVars
        /\ h_cbCalls' = h_cbCalls ]_vars

\* the notes the model keeps in out, which the session does not emit
Markers ==
  { "#negotiate", "#served", "#collapsed", "#flush", "#released", "#warn",
    "#deferred", "#iceComplete", "#statsError" }

IsEvent(e) == e \notin Markers

\* the events the session emitted in the step that produced o
Events(o) == SelectSeq(o, IsEvent)

\* the fields of the session
peerFields ==
  << destroyed, destroying, _connected, _connecting, _pcReady, _channelReady,
     _iceComplete, _iceCompleteTimer, _isNegotiating, _firstNegotiation,
     _batchedNegotiation, _queuedNegotiation, _pendingCandidates, _chunk,
     _cb, _interval, _channel, iceWaiters >>

\* a continuation the session scheduled earlier runs: the batch microtask,
\* the delayed offer creation, the continuation of an engine operation, the
\* statistics callback or its retry, the completion timer
Continuation ==
  \/ RunBatch \/ FireOfferTimer
  \/ DescriptionCreated \/ LocalDescriptionSet \/ RemoteDescriptionSet
  \/ IceCandidateAdded \/ RunStats \/ StatsRetry \/ IceCompleteTimer

\* C23: on a destroyed session no continuation the session scheduled earlier
\* changes a field of the session or emits anything, and no step at all
\* emits anything once close has been emitted
C23_NoActionAfterDestroyed ==
  /\ [][ (destroyed /\ Continuation) =>
           (Events(out') = <<>> /\ UNCHANGED peerFields) ]_vars
  /\ [][ destroyed => Events(out') = <<>> ]_vars

\* the writes made while the session was not destroyed
LiveWrites == {id \in WriteIds : h_phase[id] \in {"pre", "post"}}

\* C24: the teardown microtask empties the pending slot without invoking the
\* callback it holds, and on a destroyed session the callback of a write made
\* before the destruction is never invoked
C24_OutstandingCallbackDropped ==
  /\ [][ DestroyStep =>
           (_chunk' = 0 /\ _cb' = 0 /\ h_cbCalls' = h_cbCalls
            /\ h_cbErr' = h_cbErr) ]_vars
  /\ [][ destroyed' =>
           \A id \in LiveWrites :
             h_cbCalls'[id] = h_cbCalls[id] /\ h_cbErr'[id] = h_cbErr[id] ]_vars
  /\ [] (destroyed => _cb = 0 /\ _chunk = 0)

\* the callback of a write was withheld under backpressure, the session was
\* destroyed and the transport has drained: the callback was never invoked
C24_Witness ==
  /\ destroyed /\ nWrites = 1 /\ h_phase[1] = "post" /\ h_sentLog = << 1 >>
  /\ h_cbCalls[1] = 0 /\ ~h_cbErr[1]
  /\ bufferedAmount <= MAX_BUFFERED_AMOUNT /\ out = <<>>

\* the closing watchdog: setupData starts it when it stores the channel, and
\* the teardown microtask clears it when it drops the channel
_closingInterval == _channel

\* the timers of the session that are pending
PendingTimers ==
  << _iceCompleteTimer = "pending", _closingInterval, _interval,
     statsTimers, offerTimers >>

\* C25: on a destroyed session no timer of the session is pending: not the
\* completion timer, the closing watchdog, the fallback poll, a statistics
\* retry or a delayed offer creation; and no step starts one
C25_TimersCancelled ==
  /\ [] (destroyed => PendingTimers = << FALSE, FALSE, FALSE, 0, 0 >>)
  /\ [][ destroyed =>
           /\ _iceCompleteTimer' # "pending" /\ ~_closingInterval'
           /\ ~_interval'
           /\ statsTimers' <= statsTimers /\ offerTimers' <= offerTimers ]_vars

\* C26: whatever transport-state changes and channel-open events arrive, and
\* however often, the confirmation of readiness begins at most once, in a
\* step that finds both readiness flags set and the session neither
\* confirming nor connected, and connect is emitted at most once, after the
\* confirmation began
C26_ReadinessOnce ==
  /\ [] (h_begins <= 1 /\ h_connects <= h_begins)
  /\ [][ h_begins' # h_begins =>
           /\ ~_connecting /\ ~_connected /\ h_connects = 0
           /\ _connecting' /\ _pcReady' /\ _channelReady'
           /\ statsInFlight' = statsInFlight + 1 ]_vars
  /\ [][ Emitted("connect")' => (h_connects = 0 /\ h_connects' = 1) ]_vars

\* a transport-state change arrives on a session that is connected already
C26_Witness ==
  /\ _connected /\ h_begins = 1 /\ h_connects = 1
  /\ out = << "iceStateChange" >> /\ ~destroying /\ ~destroyed

\* the statistics continuation declares a live session with a populated
\* pending slot connected, and the transport accepts the payload
ReplayStep ==
  /\ RunStats /\ ~destroyed /\ ~destroying /\ _chunk # 0
  /\ Emitted("connect")' /\ ~destroying'

\* C27: the step that declares a session with a populated pending slot
\* connected hands the pending payload to the transport, empties the slot,
\* and treats the callback as a normal write does: it is invoked at once if
\* the transport reports no more than the watermark, and kept for the next
\* drain if it reports more; connect is never emitted with the slot populated
C27_PendingWriteReplayedAsWrite ==
  /\ [][ ReplayStep =>
           /\ h_sentLog' = Append(h_sentLog, _chunk) /\ _chunk' = 0
           /\ _cb # 0 =>
                 IF bufferedAmount' > MAX_BUFFERED_AMOUNT
                   THEN _cb' = _cb /\ h_cbCalls' = h_cbCalls
                   ELSE _cb' = 0 /\ h_cbCalls'[_cb] = h_cbCalls[_cb] + 1 ]_vars
  /\ [] ((Emitted("connect") /\ ~destroying) => _chunk = 0)

\* the payloads handed to the transport
Sent == {h_sentLog[i] : i \in DOMAIN h_sentLog}

\* C28: write() on a live session that is not connected stores the payload
\* and the callback and invokes no callback; and the callback of a write made
\* before the session was connected is not invoked, by whatever step, before
\* its payload was handed to the transport
C28_PendingCallbackHeld ==
  /\ [][ (Write /\ ~destroyed /\ ~destroying /\ ~_connected) =>
           /\ _chunk' = nWrites' /\ _cb' = nWrites'
           /\ h_cbCalls' = h_cbCalls /\ h_sentLog' = h_sentLog ]_vars
  /\ [][ \A id \in PreIds :
           (~destroying /\ h_cbCalls'[id] # h_cbCalls[id]) =>
             id \in Sent' ]_vars

\* the engine reports that the signaling state returned to stable
ReturnToStable ==
  /\ EngineSettle /\ ~destroyed
  /\ signalingState # "stable" /\ signalingState' = "stable"

\* a batch microtask is queued
BatchQueued == \E i \in DOMAIN micro : micro[i].k = "batch"

\* C29: a return to stable on a live session clears the in-flight flag; if
\* a renegotiation was queued it clears the queue flag, emits no negotiated
\* and leaves the microtask queued that enters the new negotiation, which
\* runs before any other event is handled; otherwise it emits negotiated and
\* enters no negotiation
C29_ReturnToStable ==
  /\ [][ ReturnToStable =>
           /\ ~_isNegotiating'
           /\ IF _queuedNegotiation
                THEN /\ ~_queuedNegotiation' /\ ~Emitted("negotiated")'
                     /\ h_owed' /\ _batchedNegotiation' /\ BatchQueued'
                ELSE /\ Emitted("negotiated")' /\ ~h_owed'
                     /\ ~_batchedNegotiation' /\ ~BatchQueued'
                     /\ offerTimers' = offerTimers ]_vars
  /\ [] ((h_owed /\ ~destroying /\ ~destroyed) => BatchQueued)
  /\ [][ (RunBatch /\ h_owed /\ ~destroying /\ ~destroyed) =>
           /\ _isNegotiating' /\ ~h_owed' /\ Emitted("#served")'
           /\ ~Emitted("negotiated")' ]_vars

\* the signaling state has just returned to stable with a renegotiation
\* queued
C29_Witness ==
  /\ h_owed /\ signalingState = "stable" /\ ~_isNegotiating
  /\ ~_queuedNegotiation /\ Emitted("signalingStateChange")
  /\ ~Emitted("negotiated") /\ ~destroying /\ ~destroyed

\* C30: with trickle enabled the discovery of a local candidate emits, in
\* the step of its discovery, one candidate signal and nothing else, so that
\* the signals leave in the order of discovery, and the end-of-candidates
\* marker emits nothing; a candidate leaves the completion timer started;
\* the timer is started only by a candidate that finds none, it is cleared
\* only by the destruction of the session, and never started afterwards
C30_TrickleAndTimerOnce ==
  /\ [][ (trickle /\ Discovered(TRUE)) =>
           Events(out') = << "signal:candidate" >> ]_vars
  /\ [][ (trickle /\ Discovered(FALSE)) => Events(out') = <<>> ]_vars
  /\ [][ Emitted("signal:candidate")' => (trickle /\ Discovered(TRUE)) ]_vars
  /\ [][ Discovered(TRUE) => _iceCompleteTimer' # "none" ]_vars
  /\ [][ (_iceCompleteTimer # "pending" /\ _iceCompleteTimer' = "pending") =>
           (Discovered(TRUE) /\ _iceCompleteTimer = "none") ]_vars
  /\ [][ (_iceCompleteTimer # "none" /\ _iceCompleteTimer' = "none") =>
           destroyed' ]_vars
  /\ [] (destroyed => _iceCompleteTimer = "none")

\* a candidate discovered after the completion timer fired has just been
\* emitted, and the timer was not started again
C30_Witness ==
  /\ trickle /\ out = << "signal:candidate" >>
  /\ _iceCompleteTimer = "fired" /\ _iceComplete
  /\ ~destroying /\ ~destroyed

\* C31: whatever the order and number of end-of-candidates markers and
\* whenever the completion timer fires, the internal completion notification
\* is emitted only in a step that sets the completion flag, by a marker or
\* by the timer, once in that step; the flag is never reset, so the
\* notification is emitted at most once
C31_GatheringCompleteOnce ==
  /\ [][ Emitted("#iceComplete")' =>
           /\ ~_iceComplete /\ _iceComplete'
           /\ Count(out', "#iceComplete") = 1
           /\ Discovered(FALSE) \/ TimerStep ]_vars
  /\ [][ (~_iceComplete /\ _iceComplete') => Emitted("#iceComplete")' ]_vars
  /\ [][ _iceComplete => (_iceComplete' /\ ~Emitted("#iceComplete")') ]_vars

\* the end-of-candidates marker has just completed gathering while the
\* completion timer is still pending
C31_Witness ==
  /\ Emitted("#iceComplete") /\ _iceComplete
  /\ _iceCompleteTimer = "pending" /\ ~Emitted("iceTimeout")
  /\ ~destroying /\ ~destroyed

\* the readiness flags and the destruction state
readiness == << _pcReady, _channelReady, _connecting, _connected >>
destruction == << destroying, destroyed, h_firstDestroy >>

\* C32: on a live session a transport state change to connected or completed
\* sets the transport-ready flag and begins the confirmation of readiness if
\* the channel is ready and the session is neither confirming nor connected,
\* and does not destroy; a change to failed or closed, and a connection
\* state change to failed, start the destruction with an error; every other
\* state changes neither the readiness flags nor the destruction state and
\* queues nothing
C32_TransportStateOutcomes ==
  /\ [][ \A ics \in {"connected", "completed"} :
           IceStateChangeTo(ics) =>
             /\ _pcReady' /\ UNCHANGED destruction
             /\ UNCHANGED << _channelReady, _connected >>
             /\ IF _channelReady /\ ~_connecting /\ ~_connected
                  THEN /\ _connecting' /\ h_begins' = h_begins + 1
                       /\ statsInFlight' = statsInFlight + 1
                  ELSE /\ UNCHANGED << _connecting, h_begins, statsInFlight >> ]_vars
  /\ [][ ((\E ics \in {"failed", "closed"} : IceStateChangeTo(ics))
            \/ ConnectionStateChangeTo(TRUE)) =>
           /\ destroying' /\ ~destroyed' /\ DestroyPending("err")'
           /\ h_firstDestroy' = << "err" >>
           /\ UNCHANGED readiness ]_vars
  /\ [][ ((\E ics \in {"new", "checking", "disconnected"} :
              IceStateChangeTo(ics))
            \/ ConnectionStateChangeTo(FALSE)) =>
           /\ UNCHANGED << readiness, destruction, micro, statsInFlight >> ]_vars

\* the transport has just been reported failed on a connected session
C32_Witness ==
  /\ destroying /\ ~destroyed /\ _connected /\ h_connects = 1
  /\ out = << "iceStateChange" >> /\ h_firstDestroy = << "err" >>

\* the continuation of a failed statistics query runs on a session that is
\* not destroyed
StatsFailedStep ==
  RunStats /\ Head(micro).a = "err" /\ ~destroyed

\* C33: the continuation of a failed statistics query does not destroy the
\* session, emits no event, neither error nor connect, and schedules the
\* retry, leaving every field as the continuation of an empty result would;
\* the retry timer of a session that is not destroyed issues the next query
C33_StatsFailureNotFatal ==
  /\ [][ StatsFailedStep =>
           /\ UNCHANGED << destroying, destroyed, h_firstDestroy >>
           /\ Events(out') = <<>> /\ ~exc'
           /\ statsTimers' = statsTimers + 1
           /\ UNCHANGED << _connecting, _connected, h_connects, statsInFlight >>
           /\ micro' = Tail(micro) ]_vars
  /\ [] (shouldWait("err") /\ StatsRecord("err").pairs = 0
                           /\ StatsRecord("err").locals = 0)
  /\ [][ (StatsRetry /\ ~destroyed) =>
           (statsInFlight' = statsInFlight + 1
            /\ statsTimers' = statsTimers - 1) ]_vars

\* a statistics query has just failed on a session that is confirming
\* readiness, and its retry is scheduled
C33_Witness ==
  /\ Emitted("#statsError") /\ _connecting /\ ~_connected
  /\ statsTimers = 1 /\ statsInFlight = 0
  /\ ~destroying /\ ~destroyed

\* write() on a live connected session whose send primitive throws: the
\* payload does not reach the transport
FailedWriteStep ==
  /\ Write /\ _connected /\ ~destroying /\ ~destroyed
  /\ h_sentLog' = h_sentLog

\* C34: a write() on a live connected session whose send fails starts the
\* destruction of the session with the error, lets nothing escape to the
\* caller, invokes no callback and leaves the stored callback and the
\* pending slot as they were
C34_FailedSendIsFatal ==
  [][ FailedWriteStep =>
        /\ destroying' /\ ~destroyed' /\ DestroyPending("err")'
        /\ h_firstDestroy' = << "err" >>
        /\ ~exc' /\ Events(out') = <<>>
        /\ h_cbCalls' = h_cbCalls /\ h_cbErr' = h_cbErr
        /\ _cb' = _cb /\ _chunk' = _chunk
        /\ bufferedAmount' = bufferedAmount ]_vars

\* the send of the first write on a connected session has just failed
C34_Witness ==
  /\ destroying /\ ~destroyed /\ _connected /\ nWrites = 1
  /\ h_phase[1] = "post" /\ h_sentLog = <<>> /\ h_cbCalls[1] = 0
  /\ _cb = 0 /\ h_firstDestroy = << "err" >> /\ DestroyPending("err")
  /\ out = <<>>

\* a step of a negotiation resolves: the delayed offer creation, the
\* continuation of createOffer or createAnswer, the continuation of
\* setLocalDescription
NegotiationStepResolves ==
  FireOfferTimer \/ DescriptionCreated \/ LocalDescriptionSet

\* C35: a negotiation step that resolves on a destroyed session is
\* discarded: it emits nothing, hands nothing to the engine, registers no
\* wait for the end of gathering and starts no destruction; and on a
\* destroyed session no step emits an offer or answer signal, releases a
\* signal that waited for the end of gathering, or hands an operation to
\* the engine
C35_InFlightResultDiscarded ==
  /\ [][ (destroyed /\ NegotiationStepResolves) =>
           /\ Events(out') = <<>> /\ ~exc'
           /\ Len(pcChain') <= Len(pcChain)
           /\ UNCHANGED << iceWaiters, destroying, destroyed,
                           _isNegotiating, _queuedNegotiation >> ]_vars
  /\ [][ destroyed =>
           /\ SdpSignals(out') = 0
           /\ ~Emitted("#deferred")' /\ ~Emitted("#iceComplete")'
           /\ Len(pcChain') <= Len(pcChain)
           /\ iceWaiters' = iceWaiters ]_vars

\* an initiator with trickle disabled was destroyed without an error after
\* its negotiation had started; the delayed offer creation and the engine
\* have come back, and no signal was emitted or is waiting
C35_Witness ==
  /\ destroyed /\ initiator /\ ~trickle /\ _isNegotiating
  /\ h_firstDestroy = << "" >> /\ offerTimers = 0
  /\ pcChain = <<>> /\ micro = <<>>
  /\ iceWaiters = <<>> /\ ~_iceComplete

\* the payload that carries nothing
NoField ==
  [ renegotiate |-> FALSE, transceiverRequest |-> FALSE,
    candidate |-> FALSE, sdp |-> "none" ]

\* signal() called once for every field d carries, in the order in which
\* signal() looks at the fields, each call with a payload of that one field
signalEach(s, d, c) ==
  LET s1 == IF d.renegotiate
              THEN signal(s, [NoField EXCEPT !.renegotiate = TRUE], c) ELSE s
      s2 == IF d.transceiverRequest
              THEN signal(s1, [NoField EXCEPT !.transceiverRequest = TRUE], c)
              ELSE s1
      s3 == IF d.candidate
              THEN signal(s2, [NoField EXCEPT !.candidate = TRUE], c) ELSE s2
  IN IF d.sdp # "none"
       THEN signal(s3, [NoField EXCEPT !.sdp = d.sdp], c) ELSE s3

C38_QueuedImpliesNegotiating ==
  /\ [] (_queuedNegotiation => _isNegotiating)
  /\ [][ (~_queuedNegotiation /\ _queuedNegotiation') =>
           (_isNegotiating /\ _isNegotiating' /\ Emitted("#negotiate")') ]_vars
  /\ [][ (_queuedNegotiation /\ ~_queuedNegotiation') =>
           (_isNegotiating /\ ~_isNegotiating') ]_vars
  /\ [][ (_isNegotiating /\ ~_isNegotiating') => ~_queuedNegotiation' ]_vars

\* a renegotiation is queued while the offer of the negotiation in flight
\* awaits its answer
C38_Witness ==
  /\ _queuedNegotiation /\ _isNegotiating
  /\ signalingState = "have-local-offer" /\ ~destroying /\ ~destroyed

\* C39: no step emits connect once destroy() has been invoked, be it in an
\* earlier step or earlier in the same step (the replay of the pending
\* write failing while readiness is declared)
C39_NoConnectAfterDestroy ==
  [][ (destroying \/ destroyed \/ destroying' \/ destroyed') =>
        ~Emitted("connect")' ]_vars

\* the data path with its microtasks, the statistics answers and retries
\* and the fallback poll all eventually running
FairSpecDrain == FairSpecData /\ WF_vars(IntervalTick)

\* C40: on a session that connects, is not destroyed (a connected session
\* stays connected until its teardown) and whose buffered amount ends at
\* or under the watermark, the callback of every write() made on it is
\* eventually invoked, and exactly once
C40_NoCallbackLost ==
  <>[] (/\ _connected /\ ~destroying /\ ~destroyed
        /\ bufferedAmount <= MAX_BUFFERED_AMOUNT)
    => <>[] (\A id \in LiveWrites : h_cbCalls[id] = 1)

\* C15: on two connected sessions wired signal to signal, every negotiate()
\* call on the initiator is followed by a negotiated notification on the
\* initiator and by one on the responder, however many calls came before
C15_NegotiateReachesBoth ==
  /\ ("local" \in h_pending) ~> ("local" \notin h_pending)
  /\ ("remote" \in h_pending) ~> ("remote" \notin h_pending)

\* a second negotiate() call has been answered by negotiated on both sides
C15_Witness ==
  /\ nNegotiations >= 2 /\ h_pending = {} /\ BothConnected
  /\ ~destroyed /\ ~remote.destroyed /\ ~_isNegotiating

====
